---- MODULE Spec2Model ----
(***************************************************************************)
(* A model of the news dashboard's payout and news slices                  *)
(* (redux/payoutSlice.ts, redux/newsSlice.ts), its IndexedDB cache store   *)
(* (services/indexedDbService), the article acquisition chain              *)
(* fetchAllArticles (services/newsService) and the effects of the pages    *)
(* that trigger acquisition and payout calculation.                        *)
(***************************************************************************)
EXTENDS Integers, Sequences, FiniteSets, TLC

VARIABLES
    payout,        \* state.payout: [rates, authorPayouts, loading, error]
    input,         \* payload of the last calculatePayouts (<<>> after clearPayouts)
    lastOp,        \* name of the last reducer/handler that ran
    settingsStore, \* IndexedDB store 'settings': <<the 'payoutRates' record>>, or <<>>
    payoutsStore,  \* IndexedDB store 'payouts': its records in key (author) order
    inflight,      \* async thunks dispatched and not yet settled
    articlesStore, \* IndexedDB store 'articles': its records in key (id) order
    env,           \* what the browser tells isOnline()
    fetch,         \* one call of fetchAllArticles: its position and locals
    news,          \* state.news: [articles, filteredArticles, loading, error]
    ui,            \* the mounted page, its effect instances and their calls
    op,            \* one call of a cache store operation and how it settled
    filter,        \* state.filter of the store, and whether NewsPage has yet to apply it
    exported,      \* the last call of exportToCsv: whether it threw, and its csvContent
    route          \* the last request to the /api/news route and its response

storeVars == <<settingsStore, payoutsStore, inflight>>

fetchVars == <<articlesStore, env, fetch>>

payoutVars == <<payout, input, lastOp, settingsStore, payoutsStore, inflight>>

appVars == <<news, ui, op>>

serviceVars == <<filter, exported, route>>

vars == <<payout, input, lastOp, settingsStore, payoutsStore, inflight,
          articlesStore, env, fetch, news, ui, op, filter, exported, route>>

----------------------------------------------------------------------------
(* Bounds and program constants *)

MaxArticles == 3

MaxRateStep == 2

\* Async thunks in flight at once
MaxInFlight == 1

DefaultNewsRate == 50

DefaultBlogRate == 100

----------------------------------------------------------------------------
(* Data *)

\* author is a free-text key compared by exact string equality
Authors == {"Ann", "ann"}

ArticleTypes == {"news", "blog"}

ArticleIds == <<"a1", "a2", "a3", "a4", "a5">>

\* An Article (types: Article); the fields the payout engine reads
Article(i, author, type) ==
    [id |-> ArticleIds[i], title |-> <<"title", i>>, author |-> author,
     type |-> type, publishedAt |-> i]

\* Article collections: position i holds an article with the i-th id
Collections ==
    UNION {{[i \in 1..n |-> Article(i, f[i][1], f[i][2])] :
               f \in [1..n -> Authors \X ArticleTypes]} : n \in 0..MaxArticles}

RateVals == {k * DefaultNewsRate : k \in 0..MaxRateStep}

\* PayoutRate (types: PayoutRate)
RateTables == [newsRate : RateVals, blogRate : RateVals]

initialState ==
    [rates |-> [newsRate |-> DefaultNewsRate, blogRate |-> DefaultBlogRate],
     authorPayouts |-> <<>>, loading |-> FALSE, error |-> "null"]

----------------------------------------------------------------------------
(* The payout engine *)

\* type === 'news' ? rates.newsRate : rates.blogRate
rateFor(type, rates) == IF type = "news" THEN rates.newsRate ELSE rates.blogRate

\* Mutant of authorIndex: the grouping key is compared ignoring case
toLowerCase(str) == IF str = "Ann" THEN "ann" ELSE str

authorIndexIgnoringCase(authors, author) ==
    IF \E i \in DOMAIN authors : toLowerCase(authors[i].author) = toLowerCase(author)
    THEN CHOOSE i \in DOMAIN authors :
             toLowerCase(authors[i].author) = toLowerCase(author)
    ELSE 0

\* authors.has(author): index of the Map entry with this key, 0 if none
authorIndex(authors, author) ==
    IF \E i \in DOMAIN authors : authors[i].author = author
    THEN CHOOSE i \in DOMAIN authors : authors[i].author = author
    ELSE 0

\* The aggregate a calcStep starts from when the author is new
withAuthor(authors, author) ==
    IF authorIndex(authors, author) = 0
    THEN Append(authors, [author |-> author, articleCount |-> 0,
                          totalPayout |-> 0, articles |-> <<>>])
    ELSE authors

\* Mutant of calcStep: totalPayout is assigned the rate instead of accumulated
calcStepAssignTotal(authors, article, rates) ==
    LET rate == IF article.type = "news" THEN rates.newsRate ELSE rates.blogRate
        withKey == withAuthor(authors, article.author)
        k == authorIndex(withKey, article.author)
    IN [withKey EXCEPT ![k] =
           [author |-> withKey[k].author,
            articleCount |-> withKey[k].articleCount + 1,
            totalPayout |-> rate,
            articles |-> Append(withKey[k].articles,
                                [id |-> article.id, title |-> article.title,
                                 type |-> article.type,
                                 publishedAt |-> article.publishedAt,
                                 rate |-> rate])]]

\* Mutant of calcStep: the line item is put first (unshift) instead of last (push)
calcStepUnshift(authors, article, rates) ==
    LET rate == IF article.type = "news" THEN rates.newsRate ELSE rates.blogRate
        withKey == withAuthor(authors, article.author)
        k == authorIndex(withKey, article.author)
    IN [withKey EXCEPT ![k] =
           [author |-> withKey[k].author,
            articleCount |-> withKey[k].articleCount + 1,
            totalPayout |-> withKey[k].totalPayout + rate,
            articles |-> <<[id |-> article.id, title |-> article.title,
                            type |-> article.type,
                            publishedAt |-> article.publishedAt,
                            rate |-> rate]>> \o withKey[k].articles]]

\* One iteration of articles.forEach in calculatePayouts; the Map is the
\* sequence of its values in insertion order
calcStep(authors, article, rates) ==
    LET rate == rateFor(article.type, rates)
        withKey == withAuthor(authors, article.author)
        k == authorIndex(withKey, article.author)
        authorData == withKey[k]
    IN [withKey EXCEPT ![k] =
           [author |-> authorData.author,
            articleCount |-> authorData.articleCount + 1,
            totalPayout |-> authorData.totalPayout + rate,
            articles |-> Append(authorData.articles,
                                [id |-> article.id, title |-> article.title,
                                 type |-> article.type,
                                 publishedAt |-> article.publishedAt,
                                 rate |-> rate])]]

RECURSIVE calcFold(_, _, _)
calcFold(authors, articles, rates) ==
    IF articles = <<>> THEN authors
    ELSE calcFold(calcStep(authors, Head(articles), rates), Tail(articles), rates)

\* Array.from(authors.values()) after the forEach
calculate(articles, rates) == calcFold(<<>>, articles, rates)

RECURSIVE sumRates(_)
sumRates(items) ==
    IF items = <<>> THEN 0 ELSE items[1].rate + sumRates(Tail(items))

\* Mutant of recalculatePayouts: the line items are re-rated, the total is kept
recalculatePayoutsStaleTotal(payouts, rates) ==
    [p \in DOMAIN payouts |->
        [payouts[p] EXCEPT !.articles =
            [j \in DOMAIN payouts[p].articles |->
                [payouts[p].articles[j] EXCEPT
                    !.rate = IF payouts[p].articles[j].type = "news"
                             THEN rates.newsRate ELSE rates.blogRate]]]]

\* Mutant of recalculatePayouts: aggregates that come to no payout are dropped
recalculatePayoutsDropUnpaid(payouts, rates) ==
    SelectSeq([p \in DOMAIN payouts |->
                  LET updatedArticles ==
                          [j \in DOMAIN payouts[p].articles |->
                              [payouts[p].articles[j] EXCEPT
                                  !.rate = IF payouts[p].articles[j].type = "news"
                                           THEN rates.newsRate ELSE rates.blogRate]]
                  IN [payouts[p] EXCEPT !.totalPayout = sumRates(updatedArticles),
                                        !.articles = updatedArticles]],
              LAMBDA a : a.totalPayout > 0)

\* recalculatePayouts: re-rate every line item from its type, re-sum the total
recalculatePayouts(payouts, rates) ==
    [p \in DOMAIN payouts |->
        LET updatedArticles ==
                [j \in DOMAIN payouts[p].articles |->
                    [payouts[p].articles[j] EXCEPT
                        !.rate = rateFor(payouts[p].articles[j].type, rates)]]
        IN [payouts[p] EXCEPT !.totalPayout = sumRates(updatedArticles),
                              !.articles = updatedArticles]]

----------------------------------------------------------------------------
(* Reducers of payoutSlice *)

updateRates(newRates) ==
    /\ payout' = [payout EXCEPT
                     !.rates = newRates,
                     !.authorPayouts = recalculatePayouts(payout.authorPayouts, newRates)]
    /\ lastOp' = "updateRates"
    /\ UNCHANGED <<serviceVars, input, storeVars, fetchVars, appVars>>

calculatePayouts(articles) ==
    /\ payout' = [payout EXCEPT !.authorPayouts = calculate(articles, payout.rates)]
    /\ input' = articles
    /\ lastOp' = "calculatePayouts"
    /\ UNCHANGED <<serviceVars, storeVars, fetchVars, appVars>>

clearPayouts ==
    /\ payout' = [payout EXCEPT !.authorPayouts = <<>>]
    /\ input' = <<>>
    /\ lastOp' = "clearPayouts"
    /\ UNCHANGED <<serviceVars, storeVars, fetchVars, appVars>>

----------------------------------------------------------------------------
(* The cache store's payouts and settings stores (indexedDbService) *)

\* IndexedDB orders string keys by code unit: "Ann" < "ann"
KeyOrder == <<"Ann", "ann">>

RECURSIVE inKeyOrder(_, _)
inKeyOrder(records, k) ==
    IF k > Len(KeyOrder) THEN <<>>
    ELSE SelectSeq(records, LAMBDA r : r.author = KeyOrder[k])
         \o inKeyOrder(records, k + 1)

\* savePayouts: clear, then add every aggregate under its author key; two
\* aggregates with one key fail the add, which aborts the transaction
savePayouts(store, payouts) ==
    IF \E i, j \in DOMAIN payouts : i # j /\ payouts[i].author = payouts[j].author
    THEN [ok |-> FALSE, store |-> store]
    ELSE [ok |-> TRUE, store |-> inKeyOrder(payouts, 1)]

\* getPayouts: store.getAll()
getPayouts(store) == store

\* savePayoutRates: store.put({ id: 'payoutRates', ...rates })
savePayoutRates(rates) ==
    [id |-> "payoutRates", newsRate |-> rates.newsRate, blogRate |-> rates.blogRate]

\* getPayoutRates: request.result || null (<<>> stands for null)
getPayoutRates(store) == store

noThunks ==
    [loadRates |-> 0, loadPayouts |-> 0, saveRates |-> {}, savePayouts |-> {}]

inflightCount ==
    inflight.loadRates + inflight.loadPayouts
    + Cardinality(inflight.saveRates) + Cardinality(inflight.savePayouts)

\* What a rejected thunk's action.error.message || fallback comes to
LoadRatesErrors == {"Could not open IndexedDB", "Failed to load rates"}

LoadPayoutsErrors == {"Could not open IndexedDB", "Failed to load payouts"}

----------------------------------------------------------------------------
(* Async thunks of payoutSlice and their extraReducers.  A thunk's storage  *)
(* request completes and its fulfilled/rejected action is dispatched in one *)
(* task, so the two are one step.                                           *)

loadRatesFromStoragePending ==
    /\ inflightCount < MaxInFlight
    /\ inflight' = [inflight EXCEPT !.loadRates = @ + 1]
    /\ payout' = [payout EXCEPT !.loading = TRUE, !.error = "null"]
    /\ lastOp' = "loadRatesFromStorage.pending"
    /\ UNCHANGED <<serviceVars, input, settingsStore, payoutsStore, fetchVars, appVars>>

loadRatesFromStorageFulfilled ==
    /\ inflight.loadRates > 0
    /\ inflight' = [inflight EXCEPT !.loadRates = @ - 1]
    /\ LET payload == getPayoutRates(settingsStore) IN
       payout' = IF payload # <<>>
                 THEN [payout EXCEPT !.loading = FALSE, !.rates = payload[1]]
                 ELSE [payout EXCEPT !.loading = FALSE]
    /\ lastOp' = "loadRatesFromStorage.fulfilled"
    /\ UNCHANGED <<serviceVars, input, settingsStore, payoutsStore, fetchVars, appVars>>

loadRatesFromStorageRejected ==
    /\ inflight.loadRates > 0
    /\ inflight' = [inflight EXCEPT !.loadRates = @ - 1]
    /\ \E message \in LoadRatesErrors :
          payout' = [payout EXCEPT !.loading = FALSE, !.error = message]
    /\ lastOp' = "loadRatesFromStorage.rejected"
    /\ UNCHANGED <<serviceVars, input, settingsStore, payoutsStore, fetchVars, appVars>>

loadPayoutsFromStoragePending ==
    /\ inflightCount < MaxInFlight
    /\ inflight' = [inflight EXCEPT !.loadPayouts = @ + 1]
    /\ payout' = [payout EXCEPT !.loading = TRUE, !.error = "null"]
    /\ lastOp' = "loadPayoutsFromStorage.pending"
    /\ UNCHANGED <<serviceVars, input, settingsStore, payoutsStore, fetchVars, appVars>>

loadPayoutsFromStorageFulfilled ==
    /\ inflight.loadPayouts > 0
    /\ inflight' = [inflight EXCEPT !.loadPayouts = @ - 1]
    /\ LET payload == getPayouts(payoutsStore) IN
       payout' = IF Len(payload) > 0
                 THEN [payout EXCEPT !.loading = FALSE, !.authorPayouts = payload]
                 ELSE [payout EXCEPT !.loading = FALSE]
    /\ lastOp' = "loadPayoutsFromStorage.fulfilled"
    /\ UNCHANGED <<serviceVars, input, settingsStore, payoutsStore, fetchVars, appVars>>

loadPayoutsFromStorageRejected ==
    /\ inflight.loadPayouts > 0
    /\ inflight' = [inflight EXCEPT !.loadPayouts = @ - 1]
    /\ \E message \in LoadPayoutsErrors :
          payout' = [payout EXCEPT !.loading = FALSE, !.error = message]
    /\ lastOp' = "loadPayoutsFromStorage.rejected"
    /\ UNCHANGED <<serviceVars, input, settingsStore, payoutsStore, fetchVars, appVars>>

\* dispatch(saveRatesToStorage(rates)): no reducer handles its pending action
saveRatesToStoragePending(newRates) ==
    /\ inflightCount < MaxInFlight
    /\ newRates \notin inflight.saveRates
    /\ inflight' = [inflight EXCEPT !.saveRates = @ \cup {newRates}]
    /\ lastOp' = "saveRatesToStorage.pending"
    /\ UNCHANGED <<serviceVars, payout, input, settingsStore, payoutsStore, fetchVars, appVars>>

saveRatesToStorageFulfilled(newRates) ==
    /\ newRates \in inflight.saveRates
    /\ inflight' = [inflight EXCEPT !.saveRates = @ \ {newRates}]
    /\ settingsStore' = <<savePayoutRates(newRates)>>
    /\ payout' = [payout EXCEPT
                     !.rates = newRates,
                     !.authorPayouts = recalculatePayouts(payout.authorPayouts, newRates)]
    /\ lastOp' = "saveRatesToStorage.fulfilled"
    /\ UNCHANGED <<serviceVars, input, payoutsStore, fetchVars, appVars>>

\* no reducer handles saveRatesToStorage.rejected
saveRatesToStorageRejected(newRates) ==
    /\ newRates \in inflight.saveRates
    /\ inflight' = [inflight EXCEPT !.saveRates = @ \ {newRates}]
    /\ lastOp' = "saveRatesToStorage.rejected"
    /\ UNCHANGED <<serviceVars, payout, input, settingsStore, payoutsStore, fetchVars, appVars>>

\* dispatch(savePayoutsToStorage(payouts)) with the aggregates of the state
savePayoutsToStoragePending ==
    /\ inflightCount < MaxInFlight
    /\ payout.authorPayouts \notin inflight.savePayouts
    /\ inflight' = [inflight EXCEPT !.savePayouts = @ \cup {payout.authorPayouts}]
    /\ lastOp' = "savePayoutsToStorage.pending"
    /\ UNCHANGED <<serviceVars, payout, input, settingsStore, payoutsStore, fetchVars, appVars>>

savePayoutsToStorageFulfilled(payouts) ==
    /\ payouts \in inflight.savePayouts
    /\ savePayouts(payoutsStore, payouts).ok
    /\ inflight' = [inflight EXCEPT !.savePayouts = @ \ {payouts}]
    /\ payoutsStore' = savePayouts(payoutsStore, payouts).store
    /\ payout' = [payout EXCEPT !.authorPayouts = payouts]
    /\ lastOp' = "savePayoutsToStorage.fulfilled"
    /\ UNCHANGED <<serviceVars, input, settingsStore, fetchVars, appVars>>

\* no reducer handles savePayoutsToStorage.rejected
savePayoutsToStorageRejected(payouts) ==
    /\ payouts \in inflight.savePayouts
    /\ inflight' = [inflight EXCEPT !.savePayouts = @ \ {payouts}]
    /\ lastOp' = "savePayoutsToStorage.rejected"
    /\ UNCHANGED <<serviceVars, payout, input, settingsStore, payoutsStore, fetchVars, appVars>>

----------------------------------------------------------------------------
(* The articles store and the connectivity probe (indexedDbService) *)

\* A property the object does not have (article.id of a provider article)
Undefined == "undefined"

\* IndexedDB orders string keys by code unit
ArticleKeyOrder == <<"c1", "c2", "mixed-0-t", "mixed-1-t", "n1", "n2">>

RECURSIVE articlesInKeyOrder(_, _)
articlesInKeyOrder(records, k) ==
    IF k > Len(ArticleKeyOrder) THEN <<>>
    ELSE SelectSeq(records, LAMBDA r : r.id = ArticleKeyOrder[k])
         \o articlesInKeyOrder(records, k + 1)

\* The longest prefix of the collection whose articles all have a key
RECURSIVE keyedPrefix(_)
keyedPrefix(articles) ==
    IF articles = <<>> \/ articles[1].id = Undefined THEN <<>>
    ELSE <<articles[1]>> \o keyedPrefix(Tail(articles))

hasDuplicateKey(articles) ==
    \E i, j \in DOMAIN articles : i # j /\ articles[i].id = articles[j].id

\* Mutant of saveArticles: the store takes an article without the key path
saveArticlesUnkeyed(store, articles, dbOpens) ==
    IF ~dbOpens THEN [ok |-> FALSE, store |-> store]
    ELSE [ok |-> TRUE, store |-> articles]

\* saveArticles: initDB, then in one readwrite transaction store.clear() and
\* store.add(article) for each article; resolves on transaction.oncomplete and
\* rejects on transaction.onerror.  store.add throws (rejecting the call) for
\* an article without the key path 'id', and the requests already made then
\* commit; an add of a key twice fails its request and aborts the transaction.
saveArticles(store, articles, dbOpens) ==
    IF ~dbOpens THEN [ok |-> FALSE, store |-> store]
    ELSE IF keyedPrefix(articles) # articles
         THEN [ok |-> FALSE,
               store |-> IF hasDuplicateKey(keyedPrefix(articles)) THEN store
                         ELSE articlesInKeyOrder(keyedPrefix(articles), 1)]
    ELSE IF hasDuplicateKey(articles) THEN [ok |-> FALSE, store |-> store]
    ELSE [ok |-> TRUE, store |-> articlesInKeyOrder(articles, 1)]

\* getArticles: initDB, then store.getAll()
getArticles(store, dbOpens) ==
    IF dbOpens THEN [ok |-> TRUE, value |-> store] ELSE [ok |-> FALSE, value |-> <<>>]

\* What isOnline reads: typeof navigator / window, navigator.onLine,
\* localStorage 'force_offline' and 'force_mock_data', NODE_ENV, and whether
\* reading localStorage throws
Envs ==
    [hasNavigator : BOOLEAN, hasWindow : BOOLEAN, onLine : BOOLEAN,
     forceOffline : BOOLEAN, isDevelopment : BOOLEAN, forceMockData : BOOLEAN,
     storageThrows : BOOLEAN]

browserOnline ==
    [hasNavigator |-> TRUE, hasWindow |-> TRUE, onLine |-> TRUE,
     forceOffline |-> FALSE, isDevelopment |-> FALSE, forceMockData |-> FALSE,
     storageThrows |-> FALSE]

isOnline(e) ==
    IF ~e.hasNavigator THEN FALSE
    ELSE IF ~e.hasWindow THEN e.onLine
    ELSE IF e.storageThrows THEN e.onLine
    ELSE IF e.isDevelopment /\ e.forceMockData THEN FALSE
    ELSE e.onLine /\ ~e.forceOffline

----------------------------------------------------------------------------
(* The news slice (newsSlice) *)

newsInitialState ==
    [articles |-> <<>>, filteredArticles |-> <<>>, loading |-> FALSE,
     error |-> "null"]

\* Entries of a payload that are no objects: null, and a number
Primitives == {[primitive |-> "null"], [primitive |-> "number"]}

\* action.payload of fetchNewsSuccess: an array of entries, or no array
arrayPayload(entries) == [isArray |-> TRUE, entries |-> entries]

notAnArray == [isArray |-> FALSE, entries |-> <<>>]

\* Mutant of isClean: an entry with the empty id passes
isCleanKeepingEmptyId(article) ==
    /\ "primitive" \notin DOMAIN article
    /\ article.id # Undefined

\* article && typeof article === 'object' && article.id
isClean(article) ==
    /\ "primitive" \notin DOMAIN article
    /\ article.id # Undefined
    /\ article.id # ""

fetchNewsStart(state) == [state EXCEPT !.loading = TRUE, !.error = "null"]

\* The body of the try; nothing in it throws, the catch is never entered
fetchNewsSuccess(state, payload) ==
    LET articles == IF payload.isArray THEN payload.entries ELSE <<>>
        cleanArticles == SelectSeq(articles, isClean)
    IN [state EXCEPT !.loading = FALSE, !.articles = cleanArticles,
                     !.filteredArticles = cleanArticles, !.error = "null"]

fetchNewsFailure(state, payload) ==
    [state EXCEPT !.loading = FALSE, !.error = payload]

clearNews(state) == [state EXCEPT !.articles = <<>>, !.filteredArticles = <<>>]

----------------------------------------------------------------------------
(* The filter slice and the filter engine (filterSlice, filterNews).  Text *)
(* is a sequence of characters, so that `includes` and toLowerCase are     *)
(* computed; null and the empty string, which every test of the code takes *)
(* alike, are both <<>>.  A date string is kept as written and parsed by   *)
(* getTime.                                                                *)

\* The result of getTime() of an Invalid Date
NaN == 0 - 1

isNaN(time) == time = NaN

\* new Date(dateString).getTime(), in hours since 2024-01-00T00:00Z; a
\* date-only string is midnight UTC of its day
getTime(dateString) ==
    CASE dateString = "2024-01-10" -> 240
      [] dateString = "2024-01-10T00:00:00Z" -> 240
      [] dateString = "2024-01-10T12:00:00Z" -> 252
      [] dateString = "2024-01-20T00:00:00Z" -> 480
      [] OTHER -> NaN

\* if (dateFrom), article.publishedAt &&: null and '' are falsy
isSet(dateString) == dateString \notin {"null", ""}

\* String.prototype.toLowerCase over the characters the model uses
lowerCased(text) ==
    [i \in DOMAIN text |->
        CASE text[i] = "A" -> "a"
          [] text[i] = "B" -> "b"
          [] text[i] = "N" -> "n"
          [] text[i] = "X" -> "x"
          [] OTHER -> text[i]]

\* String.prototype.includes
includes(text, part) ==
    \E i \in 1..(Len(text) + 1) :
        /\ i + Len(part) - 1 <= Len(text)
        /\ SubSeq(text, i, i + Len(part) - 1) = part

\* article.author.toLowerCase().includes(author.toLowerCase())
matchesAuthor(article, author) ==
    article.author # <<>> /\ includes(lowerCased(article.author), lowerCased(author))

\* Mutant of onOrAfter: the lower bound is exclusive
after(article, dateFrom) ==
    /\ isSet(article.publishedAt)
    /\ ~isNaN(getTime(article.publishedAt))
    /\ ~isNaN(getTime(dateFrom))
    /\ getTime(article.publishedAt) > getTime(dateFrom)

\* article.publishedAt && !isNaN(new Date(article.publishedAt).getTime()) &&
\* new Date(article.publishedAt) >= fromDate; a comparison with an Invalid
\* Date is false
onOrAfter(article, dateFrom) ==
    /\ isSet(article.publishedAt)
    /\ ~isNaN(getTime(article.publishedAt))
    /\ ~isNaN(getTime(dateFrom))
    /\ getTime(article.publishedAt) >= getTime(dateFrom)

\* The same with <= toDate
onOrBefore(article, dateTo) ==
    /\ isSet(article.publishedAt)
    /\ ~isNaN(getTime(article.publishedAt))
    /\ ~isNaN(getTime(dateTo))
    /\ getTime(article.publishedAt) <= getTime(dateTo)

\* The searchQuery filter: title, description or author includes the query
matchesQuery(article, query) ==
    \/ article.title # <<>> /\ includes(lowerCased(article.title), query)
    \/ article.description # <<>> /\ includes(lowerCased(article.description), query)
    \/ article.author # <<>> /\ includes(lowerCased(article.author), query)

\* filterNews: the four filters one after the other over a copy of
\* state.articles; nothing in the try throws
filterNews(state, payload) ==
    LET articles == state.articles
        byAuthorFilter ==
            IF payload.author # <<>>
            THEN SelectSeq(articles, LAMBDA a : matchesAuthor(a, payload.author))
            ELSE articles
        byDateFrom ==
            IF isSet(payload.dateFrom)
            THEN SelectSeq(byAuthorFilter, LAMBDA a : onOrAfter(a, payload.dateFrom))
            ELSE byAuthorFilter
        byDateTo ==
            IF isSet(payload.dateTo)
            THEN SelectSeq(byDateFrom, LAMBDA a : onOrBefore(a, payload.dateTo))
            ELSE byDateFrom
        byType ==
            IF payload.type \notin {"null", "all"}
            THEN SelectSeq(byDateTo, LAMBDA a : a.type = payload.type)
            ELSE byDateTo
        filtered ==
            IF payload.searchQuery # <<>>
            THEN LET query == lowerCased(payload.searchQuery)
                 IN SelectSeq(byType, LAMBDA a : matchesQuery(a, query))
            ELSE byType
    IN [state EXCEPT !.filteredArticles = filtered]

\* initialState of filterSlice
filterInitialState ==
    [author |-> <<>>, dateFrom |-> "null", dateTo |-> "null", type |-> "all",
     searchQuery |-> <<>>]

\* Reducers of filterSlice
setAuthorFilter(state, payload) == [state EXCEPT !.author = payload]

setDateRangeFilter(state, payload) ==
    [state EXCEPT !.dateFrom = payload.from, !.dateTo = payload.to]

setTypeFilter(state, payload) == [state EXCEPT !.type = payload]

setSearchQuery(state, payload) == [state EXCEPT !.searchQuery = payload]

clearFilters(state) == filterInitialState

\* No export has been made, no request has reached the route
notExported == [called |-> FALSE, threw |-> FALSE, csvContent |-> <<>>]

noRequest == [type |-> "none", status |-> "none", articles |-> <<>>]

\* No page is mounted yet; what a render sees of the store is its `seen`
noPage ==
    [page |-> "none", mount |-> 0,
     seen |-> [articles |-> <<>>, loading |-> FALSE, error |-> "null",
               authorPayouts |-> 0],
     dirty |-> FALSE, instances |-> <<>>, calls |-> <<>>]

\* No cache store operation has been called
noOp ==
    [name |-> "none", arg |-> <<>>, status |-> "none", failure |-> "none",
     before |-> <<>>, value |-> <<>>]

----------------------------------------------------------------------------
(* The article source chain (newsService) *)

\* Articles as /api/news?type=mixed returns them: ids `${type}-${index}-${now}`
ServerArticles ==
    <<[id |-> "mixed-0-t", title |-> <<"title", 1>>, author |-> "Ann",
       type |-> "blog", publishedAt |-> 1],
      [id |-> "mixed-1-t", title |-> <<"title", 2>>, author |-> "ann",
       type |-> "blog", publishedAt |-> 2]>>

\* What axios.get('/api/news?type=mixed') comes to: a failed request, or a
\* response whose data is missing, has another status, has articles that are
\* no array, or is { status: 'ok', articles }
ServerResponses ==
    {[failed |-> TRUE, hasData |-> FALSE, status |-> "error", isArray |-> FALSE,
      articles |-> <<>>],
     [failed |-> FALSE, hasData |-> FALSE, status |-> "error", isArray |-> FALSE,
      articles |-> <<>>],
     [failed |-> FALSE, hasData |-> TRUE, status |-> "error", isArray |-> TRUE,
      articles |-> ServerArticles],
     [failed |-> FALSE, hasData |-> TRUE, status |-> "ok", isArray |-> FALSE,
      articles |-> <<>>],
     [failed |-> FALSE, hasData |-> TRUE, status |-> "ok", isArray |-> TRUE,
      articles |-> <<>>],
     [failed |-> FALSE, hasData |-> TRUE, status |-> "ok", isArray |-> TRUE,
      articles |-> ServerArticles]}

\* fetchFromServerRoute: throws unless the response is { status: 'ok',
\* articles: [...] }
fetchFromServerRoute(response) ==
    IF response.failed THEN [threw |-> TRUE, articles |-> <<>>]
    ELSE IF ~response.hasData \/ response.status # "ok" \/ ~response.isArray
         THEN [threw |-> TRUE, articles |-> <<>>]
    ELSE [threw |-> FALSE, articles |-> response.articles]

\* Articles as the provider returns them (no id, no type), and articles that
\* carry an id
ProviderArticle(n) ==
    [id |-> Undefined, title |-> <<"title", n>>, author |-> "Ann",
     type |-> Undefined, publishedAt |-> n]

KeyedArticle(key, n) ==
    [id |-> key, title |-> <<"title", n>>, author |-> "ann",
     type |-> "news", publishedAt |-> n]

\* A provider article that carries an id and, as the provider defines no
\* `type`, none of the two article types
UntypedArticle(key, n) == [KeyedArticle(key, n) EXCEPT !.type = Undefined]

\* What one fetchFromNewsAPI(query) meets: no API key, a failed request, a
\* status other than 'ok', or { status: 'ok', articles } (articles may be absent)
DirectResponses(n) ==
    {[hasKey |-> FALSE, failed |-> FALSE, status |-> "ok", articles |-> <<>>],
     [hasKey |-> TRUE, failed |-> TRUE, status |-> "ok", articles |-> <<>>],
     [hasKey |-> TRUE, failed |-> FALSE, status |-> "error", articles |-> <<>>],
     [hasKey |-> TRUE, failed |-> FALSE, status |-> "ok", articles |-> <<>>],
     [hasKey |-> TRUE, failed |-> FALSE, status |-> "ok",
      articles |-> <<ProviderArticle(n)>>],
     [hasKey |-> TRUE, failed |-> FALSE, status |-> "ok",
      articles |-> <<KeyedArticle(ArticleKeyOrder[4 + n], n)>>],
     [hasKey |-> TRUE, failed |-> FALSE, status |-> "ok",
      articles |-> <<UntypedArticle(ArticleKeyOrder[4 + n], n)>>]}

\* fetchFromNewsAPI: the settled promise, as Promise.allSettled reports it
fetchFromNewsAPI(response) ==
    IF ~response.hasKey \/ response.failed \/ response.status # "ok"
    THEN [status |-> "rejected", value |-> <<>>]
    ELSE [status |-> "fulfilled", value |-> response.articles]

MockCount == 20

mockAuthors ==
    <<"Sarah Johnson", "Michael Chen", "Emily Rodriguez", "David Kim",
      "Jessica Thompson", "Alex Williams", "Maria Garcia", "James Brown">>

newsTopics ==
    <<"Technology Breakthrough", "Market Analysis", "Climate Change Update",
      "Healthcare Innovation", "Economic Forecast", "Scientific Discovery",
      "Space Exploration", "Renewable Energy">>

blogTopics ==
    <<"Best Practices Guide", "Industry Insights", "Professional Tips",
      "Career Advice", "Productivity Hacks", "Leadership Strategies",
      "Innovation Trends", "Success Stories">>

\* Math.floor(Math.random() * 30) for each of the articles: a few of the draws
RandomDraws ==
    {[index \in 0..(MockCount - 1) |-> d] : d \in {0, 29}}
    \cup {[index \in 0..(MockCount - 1) |-> (7 * index) % 30]}

\* getMockArticles; publishedAt is the number of days before now
getMockArticles(daysAgo) ==
    [k \in 1..MockCount |->
        LET index == k - 1
            isNews == index % 3 # 0
            topics == IF isNews THEN newsTopics ELSE blogTopics
        IN [id |-> "mock-" \o ToString(index + 1),
            title |-> <<topics[(index % Len(topics)) + 1],
                        IF isNews THEN "Breaking News" ELSE "Expert Analysis",
                        index + 1>>,
            author |-> mockAuthors[(index % Len(mockAuthors)) + 1],
            type |-> IF isNews THEN "news" ELSE "blog",
            publishedAt |-> daysAgo[index]]]

pendingPromise == [status |-> "pending", value |-> <<>>]

notFetching ==
    [pc |-> "idle", articles |-> <<>>, techArticles |-> pendingPromise,
     generalArticles |-> pendingPromise, cachedArticles |-> <<>>,
     yielded |-> [serverRoute |-> <<>>, direct |-> <<>>, cache |-> <<>>],
     attempted |-> <<>>, saves |-> <<>>, probes |-> <<>>,
     result |-> <<>>, source |-> "none"]

\* return articles: the promise of fetchAllArticles resolves
returns(f, articles, source) ==
    [f EXCEPT !.pc = "done", !.result = articles, !.source = source]

\* saveArticles(articles) is called and awaited
callsSave(f, articles, strategy) ==
    [f EXCEPT !.pc = strategy,
              !.saves = Append(@, [strategy |-> strategy, articles |-> articles,
                                   online |-> isOnline(env),
                                   outcome |-> "pending"])]

\* The direct API calls are issued: Promise.allSettled([technology, business])
triesDirect(f) ==
    [f EXCEPT !.pc = "direct", !.articles = <<>>,
              !.attempted = Append(@, "direct")]

\* getArticles() is called and awaited
triesCache(f) ==
    [f EXCEPT !.pc = "cache", !.attempted = Append(@, "cache")]

\* fetchAllArticles after `await fetchFromServerRoute("mixed")` settled
afterServerRoute(f, fetched) ==
    IF ~fetched.threw /\ Len(fetched.articles) > 0
    THEN LET g == [f EXCEPT !.articles = fetched.articles,
                            !.yielded.serverRoute = fetched.articles,
                            !.probes = Append(@, isOnline(env))]
         IN IF isOnline(env)
            THEN callsSave(g, fetched.articles, "saveServer")
            ELSE returns(g, fetched.articles, "serverRoute")
    ELSE triesDirect(f)

\* fetchAllArticles after Promise.allSettled settled: the fulfilled results
\* are pushed in the order technology, business
afterDirect(f) ==
    LET articles ==
            (IF f.techArticles.status = "fulfilled"
             THEN f.techArticles.value ELSE <<>>)
            \o (IF f.generalArticles.status = "fulfilled"
                THEN f.generalArticles.value ELSE <<>>)
    IN IF f.techArticles.status = "pending" \/ f.generalArticles.status = "pending"
       THEN f
       ELSE IF Len(articles) > 0
            THEN callsSave([f EXCEPT !.articles = articles,
                                     !.yielded.direct = articles],
                           articles, "saveDirect")
            ELSE triesCache(f)

\* Mutant of afterSave: a rejected saveArticles rejects fetchAllArticles
afterSavePropagating(f, saved) ==
    LET g == [f EXCEPT !.saves[Len(f.saves)].outcome =
                           IF saved.ok THEN "resolved" ELSE "rejected"]
    IN IF saved.ok
       THEN returns(g, g.articles,
                    IF f.pc = "saveServer" THEN "serverRoute" ELSE "direct")
       ELSE [g EXCEPT !.pc = "rejected"]

\* fetchAllArticles after `await saveArticles(articles)` settled: return the
\* articles, or land in the catch of the strategy's try and go on
afterSave(f, saved) ==
    LET g == [f EXCEPT !.saves[Len(f.saves)].outcome =
                           IF saved.ok THEN "resolved" ELSE "rejected"]
    IN IF saved.ok
       THEN returns(g, g.articles,
                    IF f.pc = "saveServer" THEN "serverRoute" ELSE "direct")
       ELSE IF f.pc = "saveServer" THEN triesDirect(g) ELSE triesCache(g)

\* Mutant of afterCache: the cached collection is returned also when empty
afterCacheUnchecked(f, cached, daysAgo) ==
    IF cached.ok
    THEN returns([f EXCEPT !.cachedArticles = cached.value,
                           !.yielded.cache = cached.value],
                 cached.value, "cache")
    ELSE returns([f EXCEPT !.attempted = Append(@, "mock")],
                 getMockArticles(daysAgo), "mock")

\* fetchAllArticles after `await getArticles()` settled
afterCache(f, cached, daysAgo) ==
    IF cached.ok /\ Len(cached.value) > 0
    THEN returns([f EXCEPT !.cachedArticles = cached.value,
                           !.yielded.cache = cached.value],
                 cached.value, "cache")
    ELSE returns([f EXCEPT !.attempted = Append(@, "mock")],
                 getMockArticles(daysAgo), "mock")

\* fetchAllArticles() is called: useMockData is false, the server route is asked
fetchAllArticles ==
    /\ fetch.pc = "idle"
    /\ fetch' = [fetch EXCEPT !.pc = "serverRoute",
                              !.attempted = Append(@, "serverRoute")]
    /\ UNCHANGED <<serviceVars, appVars, payoutVars, articlesStore, env>>

serverRouteSettles(response) ==
    /\ fetch.pc = "serverRoute"
    /\ fetch' = afterServerRoute(fetch, fetchFromServerRoute(response))
    /\ UNCHANGED <<serviceVars, appVars, payoutVars, articlesStore, env>>

saveArticlesSettles(dbOpens) ==
    /\ fetch.pc \in {"saveServer", "saveDirect"}
    /\ LET saved == saveArticles(articlesStore, fetch.articles, dbOpens) IN
       /\ articlesStore' = saved.store
       /\ fetch' = afterSave(fetch, saved)
    /\ UNCHANGED <<serviceVars, appVars, payoutVars, env>>

techArticlesSettles(response) ==
    /\ fetch.pc = "direct"
    /\ fetch.techArticles.status = "pending"
    /\ fetch' = afterDirect([fetch EXCEPT !.techArticles = fetchFromNewsAPI(response)])
    /\ UNCHANGED <<serviceVars, appVars, payoutVars, articlesStore, env>>

generalArticlesSettles(response) ==
    /\ fetch.pc = "direct"
    /\ fetch.generalArticles.status = "pending"
    /\ fetch' = afterDirect([fetch EXCEPT !.generalArticles = fetchFromNewsAPI(response)])
    /\ UNCHANGED <<serviceVars, appVars, payoutVars, articlesStore, env>>

getArticlesSettles(dbOpens, daysAgo) ==
    /\ fetch.pc = "cache"
    /\ fetch' = afterCache(fetch, getArticles(articlesStore, dbOpens), daysAgo)
    /\ UNCHANGED <<serviceVars, appVars, payoutVars, articlesStore, env>>

\* The articles an earlier session left in the cache
CachedArticles ==
    <<[id |-> "c1", title |-> <<"title", 1>>, author |-> "Ann",
       type |-> "news", publishedAt |-> 1],
      [id |-> "c2", title |-> <<"title", 2>>, author |-> "Ann",
       type |-> "blog", publishedAt |-> 2]>>

FetchInit ==
    /\ payout = initialState
    /\ input = <<>>
    /\ lastOp = "init"
    /\ settingsStore = <<>>
    /\ payoutsStore = <<>>
    /\ inflight = noThunks
    /\ articlesStore \in {<<>>, CachedArticles}
    /\ env \in Envs
    /\ fetch = notFetching
    /\ news = newsInitialState
    /\ ui = noPage
    /\ op = noOp
    /\ filter = [state |-> filterInitialState, stale |-> FALSE]
    /\ exported = notExported
    /\ route = noRequest

FetchNext ==
    \/ fetchAllArticles
    \/ \E response \in ServerResponses : serverRouteSettles(response)
    \/ \E dbOpens \in BOOLEAN : saveArticlesSettles(dbOpens)
    \/ \E response \in DirectResponses(1) : techArticlesSettles(response)
    \/ \E response \in DirectResponses(2) : generalArticlesSettles(response)
    \/ \E dbOpens \in BOOLEAN, daysAgo \in RandomDraws :
          getArticlesSettles(dbOpens, daysAgo)

SpecFetch == FetchInit /\ [][FetchNext]_vars

----------------------------------------------------------------------------
(* Specification of the payout engine: reducers over all bounded inputs *)

Init ==
    /\ payout = initialState
    /\ input = <<>>
    /\ lastOp = "init"
    /\ settingsStore = <<>>
    /\ payoutsStore = <<>>
    /\ inflight = noThunks
    /\ articlesStore = <<>>
    /\ env = browserOnline
    /\ fetch = notFetching
    /\ news = newsInitialState
    /\ ui = noPage
    /\ op = noOp
    /\ filter = [state |-> filterInitialState, stale |-> FALSE]
    /\ exported = notExported
    /\ route = noRequest

Next ==
    \/ \E articles \in Collections : calculatePayouts(articles)
    \/ \E newRates \in RateTables : updateRates(newRates)
    \/ clearPayouts

Spec == Init /\ [][Next]_vars

----------------------------------------------------------------------------
(* Specification of the whole payout slice with its storage thunks, over a  *)
(* few article collections and rate tables                                  *)

\* The collection of the specification's scenario, its authors in case-only
\* different spellings, and a one-author collection
SliceCollections ==
    {<<>>,
     <<Article(1, "ann", "news"), Article(2, "Ann", "blog"), Article(3, "ann", "blog")>>,
     <<Article(1, "Ann", "blog"), Article(2, "Ann", "news")>>}

SliceRateTables ==
    {r \in RateTables : r.newsRate = 2 * DefaultNewsRate /\ r.blogRate = 0}
    \cup {initialState.rates}

SliceNext ==
    \/ \E articles \in SliceCollections : calculatePayouts(articles)
    \/ \E newRates \in SliceRateTables : updateRates(newRates)
    \/ clearPayouts
    \/ loadRatesFromStoragePending
    \/ loadRatesFromStorageFulfilled
    \/ loadRatesFromStorageRejected
    \/ loadPayoutsFromStoragePending
    \/ loadPayoutsFromStorageFulfilled
    \/ loadPayoutsFromStorageRejected
    \/ \E newRates \in SliceRateTables : saveRatesToStoragePending(newRates)
    \/ \E newRates \in inflight.saveRates : saveRatesToStorageFulfilled(newRates)
    \/ \E newRates \in inflight.saveRates : saveRatesToStorageRejected(newRates)
    \/ savePayoutsToStoragePending
    \/ \E payouts \in inflight.savePayouts : savePayoutsToStorageFulfilled(payouts)
    \/ \E payouts \in inflight.savePayouts : savePayoutsToStorageRejected(payouts)

SpecSlice == Init /\ [][SliceNext]_vars

----------------------------------------------------------------------------
(* Specification of the news slice: its reducers over bounded payloads *)

\* Payload entries: two articles, an article without id, one with the empty
\* id, and the two primitives
NewsEntries ==
    {KeyedArticle("n1", 1), KeyedArticle("n2", 2), ProviderArticle(1),
     [KeyedArticle("n1", 3) EXCEPT !.id = ""]} \cup Primitives

Payloads ==
    {notAnArray}
    \cup UNION {{arrayPayload(e) : e \in [1..n -> NewsEntries]} : n \in 0..MaxArticles}

NewsErrors == {"Data fetch timed out", "Network Error"}

dispatchFetchNewsStart ==
    /\ news' = fetchNewsStart(news)
    /\ lastOp' = "fetchNewsStart"
    /\ UNCHANGED <<serviceVars, payout, input, storeVars, fetchVars, ui, op>>

dispatchFetchNewsSuccess(payload) ==
    /\ news' = fetchNewsSuccess(news, payload)
    /\ input' = payload
    /\ lastOp' = "fetchNewsSuccess"
    /\ UNCHANGED <<serviceVars, payout, storeVars, fetchVars, ui, op>>

dispatchFetchNewsFailure(message) ==
    /\ news' = fetchNewsFailure(news, message)
    /\ lastOp' = "fetchNewsFailure"
    /\ UNCHANGED <<serviceVars, payout, input, storeVars, fetchVars, ui, op>>

dispatchClearNews ==
    /\ news' = clearNews(news)
    /\ lastOp' = "clearNews"
    /\ UNCHANGED <<serviceVars, payout, input, storeVars, fetchVars, ui, op>>

NewsNext ==
    \/ dispatchFetchNewsStart
    \/ \E payload \in Payloads : dispatchFetchNewsSuccess(payload)
    \/ \E message \in NewsErrors : dispatchFetchNewsFailure(message)
    \/ dispatchClearNews

SpecNews == Init /\ [][NewsNext]_vars

----------------------------------------------------------------------------
(* Specification of the filter engine: filterNews over bounded article     *)
(* collections and filters                                                 *)

\* Articles that differ in what the filters read: the case of the author,
\* the instant (on a bound, after it, no date at all), the type, and where
\* the letter x occurs
FilterArticles ==
    {[id |-> "f1", title |-> <<"X", "a">>, description |-> <<>>,
      author |-> <<"A", "n", "n">>, type |-> "news",
      publishedAt |-> "2024-01-10T00:00:00Z"],
     [id |-> "f2", title |-> <<"b">>, description |-> <<"a", "x">>,
      author |-> <<"a", "n", "n">>, type |-> "blog",
      publishedAt |-> "2024-01-10T12:00:00Z"],
     [id |-> "f3", title |-> <<"b">>, description |-> <<"b">>,
      author |-> <<"B", "o", "b">>, type |-> "blog",
      publishedAt |-> "not a date"],
     [id |-> "f4", title |-> <<"b">>, description |-> <<>>,
      author |-> <<"X", "u">>, type |-> "news",
      publishedAt |-> "2024-01-20T00:00:00Z"]}

\* Longest article collection handed to the filter engine
MaxFiltered == 2

FilterCollections ==
    UNION {[1..n -> FilterArticles] : n \in 0..MaxFiltered}

\* Payloads of filterNews: every field unset, set, and for the two bounds
\* set to a string that is no date
DateBounds == {"null", "2024-01-10", "soon"}

Filters ==
    [author : {<<>>, <<"a", "N">>},
     dateFrom : DateBounds,
     dateTo : DateBounds,
     type : {"all", "news", "blog"},
     searchQuery : {<<>>, <<"X">>}]

dispatchFilterNews(payload) ==
    /\ news' = filterNews(news, payload)
    /\ input' = payload
    /\ lastOp' = "filterNews"
    /\ UNCHANGED <<serviceVars, payout, storeVars, fetchVars, ui, op>>

FilterNext ==
    \/ \E articles \in FilterCollections :
          dispatchFetchNewsSuccess(arrayPayload(articles))
    \/ \E payload \in Filters : dispatchFilterNews(payload)

SpecFilter == Init /\ [][FilterNext]_vars

----------------------------------------------------------------------------
(* Specification of NewsPage's filter effect: NewsPage is mounted, the     *)
(* filter panel and the header's search box change state.filter, the       *)
(* effect with the dependencies [dispatch, filterState] dispatches         *)
(* filterNews(filterState) at the commit that follows, and articles arrive *)
(* with fetchNewsSuccess                                                   *)

\* Text of the search box
SearchQueries == {<<>>, <<"X">>}

\* The local state of the filter panel: '' or an author of the list, '' or
\* a date of the date inputs, one of the three types
PanelFilters ==
    [author : {<<>>, <<"A", "n", "n">>},
     dateFrom : {"", "2024-01-10"},
     dateTo : {"", "2024-01-10"},
     type : {"all", "news", "blog"}]

\* Collections a completed acquisition dispatches
ArrivingCollections ==
    {<<>>} \cup {c \in FilterCollections : Len(c) = MaxFiltered /\ c[1].id = "f1"}

\* state.filter after the reducers of a handler; the selector returns a new
\* object, which the effect sees as a changed dependency, only if a field
\* changed
updatesFilter(newState) ==
    /\ filter' = [state |-> newState, stale |-> filter.stale \/ newState # filter.state]
    /\ UNCHANGED <<news, input, exported, route, payout, storeVars, fetchVars, ui, op>>

\* handleSearch of DashboardLayout
handleSearch(query) ==
    /\ updatesFilter(setSearchQuery(filter.state, query))
    /\ lastOp' = "handleSearch"

\* `value || null` of handleApplyFilters
orNull(value) == IF value = "" THEN "null" ELSE value

\* handleApplyFilters of NewsFilters: three dispatches in one handler
handleApplyFilters(filters) ==
    /\ updatesFilter(
           setTypeFilter(
               setDateRangeFilter(
                   setAuthorFilter(filter.state, filters.author),
                   [from |-> orNull(filters.dateFrom), to |-> orNull(filters.dateTo)]),
               filters.type))
    /\ lastOp' = "handleApplyFilters"

\* handleClearFilters of NewsFilters
handleClearFilters ==
    /\ updatesFilter(clearFilters(filter.state))
    /\ lastOp' = "handleClearFilters"

\* The filter effect of NewsPage runs: dispatch(filterNews(filterState))
filterEffectRuns ==
    /\ filter.stale
    /\ filter' = [filter EXCEPT !.stale = FALSE]
    /\ news' = filterNews(news, filter.state)
    /\ input' = filter.state
    /\ lastOp' = "filterNews"
    /\ UNCHANGED <<exported, route, payout, storeVars, fetchVars, ui, op>>

NewsPageNext ==
    \/ \E query \in SearchQueries : handleSearch(query)
    \/ \E filters \in PanelFilters : handleApplyFilters(filters)
    \/ handleClearFilters
    \/ filterEffectRuns
    \/ \E articles \in ArrivingCollections :
          dispatchFetchNewsSuccess(arrayPayload(articles))
    \/ dispatchClearNews

SpecNewsPage == Init /\ [][NewsPageNext]_vars

----------------------------------------------------------------------------
(* The export service: exportToCsv over the rows exportPayoutsToGoogleSheets *)
(* builds.  Text is a sequence of characters; a value is a number or text.   *)

\* Most rows of an export
MaxRows == 2

number(n) == [kind |-> "number", n |-> n]

string(characters) == [kind |-> "string", text |-> characters]

\* headers of exportPayoutsToGoogleSheets, in the order of Object.keys
SheetsHeaders ==
    <<[key |-> "Author",
       label |-> <<"A", "u", "t", "h", "o", "r">>],
      [key |-> "Article Count",
       label |-> <<"A", "r", "t", "i", "c", "l", "e", " ", "C", "o", "u", "n", "t">>],
      [key |-> "Total Payout",
       label |-> <<"T", "o", "t", "a", "l", " ", "P", "a", "y", "o", "u", "t", " ", "(", "$", ")">>],
      [key |-> "Articles",
       label |-> <<"A", "r", "t", "i", "c", "l", "e", " ", "T", "i", "t", "l", "e", "s">>]>>

\* sheetsData: one row per aggregate; an author may hold a double quote or a
\* comma, a total is 0 when the author's rate is 0
SheetsRows ==
    {[k \in {"Author", "Article Count", "Total Payout", "Articles"} |->
         CASE k = "Author" -> string(author)
           [] k = "Article Count" -> number(count)
           [] k = "Total Payout" -> number(total)
           [] OTHER -> string(<<"t", ";", " ", "u">>)] :
       author \in {<<"A", "n">>, <<"a", "\"", ",">>},
       count \in {1, 12},
       total \in {0, DefaultNewsRate, 2 * DefaultBlogRate}}

\* data: null, or an array of rows
ExportData ==
    {[isNull |-> TRUE, items |-> <<>>]}
    \cup {[isNull |-> FALSE, items |-> items] :
            items \in UNION {[1..n -> SheetsRows] : n \in 0..MaxRows}}

\* Number.prototype.toString of a natural number
RECURSIVE toDigits(_)
toDigits(n) ==
    LET digit == <<"0", "1", "2", "3", "4", "5", "6", "7", "8", "9">>[(n % 10) + 1]
    IN IF n < 10 THEN <<digit>> ELSE Append(toDigits(n \div 10), digit)

\* value || '': 0, '' and undefined are falsy
isFalsy(value) ==
    \/ value.kind = "undefined"
    \/ value.kind = "number" /\ value.n = 0
    \/ value.kind = "string" /\ value.text = <<>>

\* String(value) of a number or a string
String(value) ==
    CASE value.kind = "number" -> toDigits(value.n)
      [] value.kind = "string" -> value.text
      [] OTHER -> <<"u", "n", "d", "e", "f", "i", "n", "e", "d">>

\* .replace(/"/g, '""')
RECURSIVE doubleQuotes(_)
doubleQuotes(characters) ==
    IF characters = <<>> THEN <<>>
    ELSE (IF Head(characters) = "\"" THEN <<"\"", "\"">> ELSE <<Head(characters)>>)
         \o doubleQuotes(Tail(characters))

\* Array.prototype.join
RECURSIVE join(_, _)
join(texts, separator) ==
    IF texts = <<>> THEN <<>>
    ELSE IF Len(texts) = 1 THEN texts[1]
    ELSE texts[1] \o <<separator>> \o join(Tail(texts), separator)

\* item[key]
valueOf(item, key) == IF key \in DOMAIN item THEN item[key] ELSE [kind |-> "undefined"]

\* `"${String(value || '').replace(/"/g, '""')}"`
cell(value) ==
    <<"\"">> \o doubleQuotes(IF isFalsy(value) THEN <<>> ELSE String(value)) \o <<"\"">>

\* exportToCsv: throws for no data, returns csvContent otherwise
exportToCsv(data, headers) ==
    IF data.isNull \/ Len(data.items) = 0
    THEN [called |-> TRUE, threw |-> TRUE, csvContent |-> <<>>]
    ELSE LET headerRow == join([h \in DOMAIN headers |-> headers[h].label], ",")
             rows == [i \in DOMAIN data.items |->
                        join([h \in DOMAIN headers |->
                                 cell(valueOf(data.items[i], headers[h].key))], ",")]
         IN [called |-> TRUE, threw |-> FALSE,
             csvContent |-> join(<<headerRow>> \o rows, "\n")]

\* A call of exportToCsv with the headers of the payout export
exportsCsv(data) ==
    /\ exported' = exportToCsv(data, SheetsHeaders)
    /\ input' = data
    /\ lastOp' = "exportToCsv"
    /\ UNCHANGED <<filter, route, payout, storeVars, fetchVars, appVars>>

ExportNext == \E data \in ExportData : exportsCsv(data)

SpecExport == Init /\ [][ExportNext]_vars

----------------------------------------------------------------------------
(* The mediated route (GET of /api/news) and the payouts of its result *)

\* The `type` parameter of a request: absent, or one of the selectors in use
Selectors == {"null", "headlines", "blog", "mixed"}

\* Articles as the provider returns them to the route: with an author, and
\* with author null
UpstreamArticles ==
    {ProviderArticle(1), [ProviderArticle(2) EXCEPT !.author = Undefined]}

\* What the route's request to the provider comes to: a failed request, a
\* response without an articles array, or a response with articles
UpstreamResponses ==
    {[failed |-> TRUE, isArray |-> FALSE, articles |-> <<>>],
     [failed |-> FALSE, isArray |-> FALSE, articles |-> <<>>]}
    \cup {[failed |-> FALSE, isArray |-> TRUE, articles |-> articles] :
            articles \in UNION {[1..n -> UpstreamArticles] : n \in 0..MaxArticles}}

\* Mutant of typeOf: only the 'blog' selector gives blog articles
typeOfBlogSelector(type) == IF type = "blog" THEN "blog" ELSE "news"

\* type === 'headlines' ? 'news' : 'blog'
typeOf(type) == IF type = "headlines" THEN "news" ELSE "blog"

\* GET: the provider's articles mapped into the Article shape, or the error
\* response
GET(selector, response) ==
    LET type == IF selector = "null" THEN "headlines" ELSE selector
    IN IF response.failed \/ ~response.isArray
       THEN [type |-> type, status |-> "error", articles |-> <<>>]
       ELSE [type |-> type, status |-> "ok",
             articles |->
                 [index \in DOMAIN response.articles |->
                     [id |-> type \o "-" \o ToString(index - 1) \o "-t",
                      title |-> response.articles[index].title,
                      author |-> IF response.articles[index].author = Undefined
                                 THEN "Unknown Author"
                                 ELSE response.articles[index].author,
                      type |-> typeOf(type),
                      publishedAt |-> response.articles[index].publishedAt]]]

\* A request reaches the route and is answered
requestsRoute(selector, response) ==
    /\ route' = GET(selector, response)
    /\ lastOp' = "GET"
    /\ UNCHANGED <<filter, exported, payout, input, storeVars, fetchVars, appVars>>

\* dispatch(calculatePayouts(data)) with the articles of an answer
calculatesRouted ==
    /\ route.status = "ok"
    /\ calculatePayouts(route.articles)

RouteNext ==
    \/ \E selector \in Selectors, response \in UpstreamResponses :
          requestsRoute(selector, response)
    \/ calculatesRouted
    \/ \E newRates \in SliceRateTables : updateRates(newRates)

SpecRoute == Init /\ [][RouteNext]_vars

----------------------------------------------------------------------------
(* Specification of the cache store: calls of its six operations, one at a *)
(* time, and the ways their transactions end                               *)

\* How the storage layer fails a call: the database cannot be opened
\* (request.onerror of initDB), a request of the transaction fails (its error
\* event reaches request.onerror and transaction.onerror), or the transaction
\* is aborted when it commits, as on an exceeded quota (an abort event alone)
StorageFailures == {"none", "open", "request", "commit"}

\* Collections handed to saveArticles: with ids, without, and with one id twice
StoreCollections ==
    {<<>>, CachedArticles, ServerArticles,
     <<ProviderArticle(1)>>,
     <<KeyedArticle("n1", 1), ProviderArticle(2)>>,
     <<KeyedArticle("n1", 1), KeyedArticle("n1", 2)>>,
     <<KeyedArticle("n2", 2), KeyedArticle("n1", 1)>>}

StorePayouts == {calculate(articles, initialState.rates) : articles \in SliceCollections}

\* An operation is called: initDB() is awaited
callsStore(name, arg, before) ==
    /\ op.status # "pending"
    /\ op' = [name |-> name, arg |-> arg, status |-> "pending",
              failure |-> "none", before |-> before, value |-> <<>>]
    /\ lastOp' = name
    /\ UNCHANGED <<serviceVars, payout, input, storeVars, fetchVars, news, ui>>

\* The promise of the operation resolves, rejects, or (hangs) is left pending
\* by a transaction that ended without calling resolve or reject
resolves(value) == [op EXCEPT !.status = "resolved", !.value = value]

rejects(failure) == [op EXCEPT !.status = "rejected", !.failure = failure]

hangs(failure) == [op EXCEPT !.failure = failure]

isRunning(name) == op.name = name /\ op.status = "pending" /\ op.failure = "none"

\* saveArticles: initDB rejecting rejects it; store.add throwing, or an add
\* failing, is as in saveArticles above; a failed request aborts and reaches
\* transaction.onerror; an abort at commit calls neither handler
saveArticlesEnds(failure) ==
    /\ isRunning("saveArticles")
    /\ LET saved == saveArticles(articlesStore, op.arg, failure # "open") IN
       IF failure \in {"none", "open"} \/ ~saved.ok
       THEN /\ articlesStore' = saved.store
            /\ op' = IF saved.ok THEN resolves(<<>>)
                     ELSE rejects(IF failure = "open" THEN "open" ELSE "none")
       ELSE /\ articlesStore' = articlesStore
            /\ op' = IF failure = "request" THEN rejects(failure) ELSE hangs(failure)
    /\ lastOp' = "saveArticles.ends"
    /\ UNCHANGED <<serviceVars, payout, input, storeVars, env, fetch, news, ui>>

\* getArticles: request.onsuccess resolves with request.result, request.onerror
\* rejects; the requests of an aborted transaction get an error event
getArticlesEnds(failure) ==
    /\ isRunning("getArticles")
    /\ failure # "commit"
    /\ op' = IF failure = "none"
             THEN resolves(getArticles(articlesStore, TRUE).value)
             ELSE rejects(failure)
    /\ lastOp' = "getArticles.ends"
    /\ UNCHANGED <<serviceVars, payout, input, storeVars, fetchVars, news, ui>>

savePayoutsEnds(failure) ==
    /\ isRunning("savePayouts")
    /\ LET saved == savePayouts(payoutsStore, op.arg) IN
       IF failure = "none" \/ (failure # "open" /\ ~saved.ok)
       THEN /\ payoutsStore' = saved.store
            /\ op' = IF saved.ok THEN resolves(<<>>) ELSE rejects("none")
       ELSE /\ payoutsStore' = payoutsStore
            /\ op' = IF failure = "commit" THEN hangs(failure) ELSE rejects(failure)
    /\ lastOp' = "savePayouts.ends"
    /\ UNCHANGED <<serviceVars, payout, input, settingsStore, inflight, fetchVars, news, ui>>

getPayoutsEnds(failure) ==
    /\ isRunning("getPayouts")
    /\ failure # "commit"
    /\ op' = IF failure = "none" THEN resolves(getPayouts(payoutsStore))
             ELSE rejects(failure)
    /\ lastOp' = "getPayouts.ends"
    /\ UNCHANGED <<serviceVars, payout, input, storeVars, fetchVars, news, ui>>

savePayoutRatesEnds(failure) ==
    /\ isRunning("savePayoutRates")
    /\ IF failure = "none"
       THEN /\ settingsStore' = <<savePayoutRates(op.arg[1])>>
            /\ op' = resolves(<<>>)
       ELSE /\ settingsStore' = settingsStore
            /\ op' = IF failure = "commit" THEN hangs(failure) ELSE rejects(failure)
    /\ lastOp' = "savePayoutRates.ends"
    /\ UNCHANGED <<serviceVars, payout, input, payoutsStore, inflight, fetchVars, news, ui>>

getPayoutRatesEnds(failure) ==
    /\ isRunning("getPayoutRates")
    /\ failure # "commit"
    /\ op' = IF failure = "none" THEN resolves(getPayoutRates(settingsStore))
             ELSE rejects(failure)
    /\ lastOp' = "getPayoutRates.ends"
    /\ UNCHANGED <<serviceVars, payout, input, storeVars, fetchVars, news, ui>>

StoreNext ==
    \/ \E articles \in StoreCollections :
          callsStore("saveArticles", articles, articlesStore)
    \/ callsStore("getArticles", <<>>, articlesStore)
    \/ \E payouts \in StorePayouts : callsStore("savePayouts", payouts, payoutsStore)
    \/ callsStore("getPayouts", <<>>, payoutsStore)
    \/ \E rates \in SliceRateTables :
          callsStore("savePayoutRates", <<rates>>, settingsStore)
    \/ callsStore("getPayoutRates", <<>>, settingsStore)
    \/ \E failure \in StorageFailures : saveArticlesEnds(failure)
    \/ \E failure \in StorageFailures : getArticlesEnds(failure)
    \/ \E failure \in StorageFailures : savePayoutsEnds(failure)
    \/ \E failure \in StorageFailures : getPayoutsEnds(failure)
    \/ \E failure \in StorageFailures : savePayoutRatesEnds(failure)
    \/ \E failure \in StorageFailures : getPayoutRatesEnds(failure)

SpecStore == Init /\ [][StoreNext]_vars

----------------------------------------------------------------------------
(* The pages that trigger acquisition and payout calculation: NewsPage,    *)
(* PayoutsPage and Dashboard.  An effect runs when its page is mounted and *)
(* again at the commit of a render in which one of its dependencies has    *)
(* changed; that commit is a step of its own, taken at some point after    *)
(* the dispatch that changed the store.  A call of fetchAllArticles stands *)
(* for the whole chain above and settles with one of its results.          *)

MaxMounts == 3

Pages == {"news", "payouts", "dashboard"}

\* Collections fetchAllArticles resolves with
PageResults == {ServerArticles, CachedArticles}

\* The store and what the handlers of a step change of it, as one record
world ==
    [news |-> news, payout |-> payout, ui |-> ui, inflight |-> inflight,
     input |-> input]

becomes(w, handler) ==
    /\ news' = w.news
    /\ payout' = w.payout
    /\ ui' = w.ui
    /\ inflight' = w.inflight
    /\ input' = w.input
    /\ lastOp' = handler
    /\ UNCHANGED <<serviceVars, settingsStore, payoutsStore, fetchVars, op>>

\* useSelector: the values of the store a render sees
snapshot(w) ==
    [articles |-> w.news.articles, loading |-> w.news.loading,
     error |-> w.news.error, authorPayouts |-> Len(w.payout.authorPayouts)]

renders(w) == [w EXCEPT !.ui.seen = snapshot(w), !.ui.dirty = FALSE]

\* dispatch(calculatePayouts(articles))
dispatchesCalculatePayouts(w, articles) ==
    [w EXCEPT !.payout.authorPayouts = calculate(articles, w.payout.rates),
              !.input = articles]

\* dispatch(loadRatesFromStorage()) and dispatch(loadPayoutsFromStorage()):
\* the pending action is reduced at once
dispatchesLoadRates(w) ==
    [w EXCEPT !.payout.loading = TRUE, !.payout.error = "null",
              !.inflight.loadRates = @ + 1]

dispatchesLoadPayouts(w) ==
    [w EXCEPT !.payout.loading = TRUE, !.payout.error = "null",
              !.inflight.loadPayouts = @ + 1]

\* dispatch(fetchNewsSuccess(data)); the array assigned is a new one, which
\* the pages that depend on `articles` see as a changed dependency
dispatchesFetchNewsSuccess(w, data) ==
    [w EXCEPT !.news = fetchNewsSuccess(@, arrayPayload(data)),
              !.ui.dirty = w.ui.page \in {"payouts", "dashboard"}]

\* fetchAllArticles() is called; `guard` is the news state the trigger fired in
issuesCall(w, owner, instance) ==
    [w EXCEPT !.ui.calls =
        Append(@, [owner |-> owner, mount |-> w.ui.mount, instance |-> instance,
                   status |-> "pending",
                   guard |-> [articles |-> Len(w.news.articles),
                              loading |-> w.news.loading,
                              error |-> w.news.error],
                   gone |-> FALSE, dispatched |-> FALSE])]

\* Mutant of payoutsPageFetches: newsLoading is not asked
payoutsPageFetchesWhileLoading(seen) ==
    Len(seen.articles) = 0 /\ seen.error = "null"

\* PayoutsPage: articles.length === 0 && !newsLoading && !newsError
payoutsPageFetches(seen) ==
    Len(seen.articles) = 0 /\ ~seen.loading /\ seen.error = "null"

\* loadData of NewsPage: articles.length === 0 && !loading && !error
loadDataFetches(seen) ==
    Len(seen.articles) = 0 /\ ~seen.loading /\ seen.error = "null"

\* The effect of PayoutsPage; it returns no cleanup
PayoutsPageEffect(w) ==
    LET seen == w.ui.seen
        loading == dispatchesLoadRates(w)
    IN IF payoutsPageFetches(seen)
       THEN [issuesCall(loading, "payouts", 0) EXCEPT !.news = fetchNewsStart(@)]
       ELSE IF Len(seen.articles) > 0 /\ seen.authorPayouts = 0
            THEN dispatchesCalculatePayouts(loading, seen.articles)
            ELSE loading

\* The first effect of Dashboard: it runs when the page is mounted
DashboardLoadEffect(w) == dispatchesLoadPayouts(dispatchesLoadRates(w))

\* The second effect of Dashboard: it runs again when `articles` changed
DashboardPayoutEffect(w) ==
    IF Len(w.ui.seen.articles) > 0
    THEN dispatchesCalculatePayouts(w, w.ui.seen.articles)
    ELSE w

\* The load effect of NewsPage: isMounted = true and initTimer is set.  (The
\* page's other effect, which dispatches filterNews, writes filteredArticles
\* only and is left to the filter engine.)
NewsPageEffect(w) ==
    [w EXCEPT !.ui.instances =
        Append(@, [mount |-> w.ui.mount, isMounted |-> TRUE, initTimer |-> TRUE,
                   timeoutId |-> FALSE, pc |-> "waiting", seen |-> w.ui.seen])]

\* The cleanup of the load effect of NewsPage: isMounted = false and both
\* timers cleared.  At most the newest instance has anything left to clear.
cleanup(w) ==
    IF w.ui.page = "news"
    THEN [w EXCEPT !.ui.instances =
             [i \in DOMAIN @ |-> [@[i] EXCEPT !.isMounted = FALSE,
                                              !.initTimer = FALSE,
                                              !.timeoutId = FALSE]]]
    ELSE w

\* Whether a dependency of an effect of the mounted page differs from what
\* its last run saw
depsChanged(w) ==
    LET seen == w.ui.seen
        now == snapshot(w)
    IN CASE w.ui.page = "news" ->
              \/ Len(now.articles) # Len(seen.articles)
              \/ now.loading # seen.loading
              \/ now.error # seen.error
         [] w.ui.page = "payouts" ->
              \/ w.ui.dirty
              \/ now.articles # seen.articles
              \/ now.loading # seen.loading
              \/ now.error # seen.error
              \/ now.authorPayouts # seen.authorPayouts
         [] w.ui.page = "dashboard" ->
              w.ui.dirty \/ now.articles # seen.articles
         [] OTHER -> FALSE

\* The user opens a page: the mounted page is unmounted (its cleanup runs),
\* the page is rendered and its effects run
navigates(page) ==
    /\ page # ui.page
    /\ ui.mount < MaxMounts
    /\ LET mounted == renders([cleanup(world) EXCEPT !.ui.page = page,
                                                     !.ui.mount = @ + 1])
       IN becomes(CASE page = "news" -> NewsPageEffect(mounted)
                    [] page = "payouts" -> PayoutsPageEffect(mounted)
                    [] page = "dashboard" ->
                         DashboardPayoutEffect(DashboardLoadEffect(mounted)),
                  "navigates")

\* The commit of a render in which a dependency changed: the cleanup of the
\* effect's last run, then the effect
commits ==
    /\ depsChanged(world)
    /\ LET rendered == renders(cleanup(world))
       IN becomes(CASE ui.page = "news" -> NewsPageEffect(rendered)
                    [] ui.page = "payouts" -> PayoutsPageEffect(rendered)
                    [] ui.page = "dashboard" -> DashboardPayoutEffect(rendered),
                  "commits")

\* initTimer (10 ms) fires: if (isMounted) loadData(), up to its await
initTimerFires(i) ==
    /\ ui.instances[i].initTimer
    /\ LET fired == [world EXCEPT !.ui.instances[i].initTimer = FALSE]
       IN becomes(IF loadDataFetches(ui.instances[i].seen)
                  THEN [issuesCall(fired, "news", i) EXCEPT
                           !.news = fetchNewsStart(@),
                           !.ui.instances[i].timeoutId = TRUE,
                           !.ui.instances[i].pc = "racing"]
                  ELSE [fired EXCEPT !.ui.instances[i].pc = "idle"],
                  "initTimerFires")

\* The deadline (8000 ms) fires first: the race rejects, the catch dispatches
\* fetchNewsFailure and imports the service, whose getMockNewsArticles and
\* getMockBlogArticles do not exist: the call throws and is logged
deadlineFires(i) ==
    /\ ui.instances[i].timeoutId
    /\ becomes([world EXCEPT
                   !.news = fetchNewsFailure(@, "Data fetch timed out"),
                   !.ui.instances[i].timeoutId = FALSE,
                   !.ui.instances[i].pc = "timedOut"],
               "deadlineFires")

\* The caller of a call is gone: its effect instance was cleaned up
\* (NewsPage), or its page is no longer the mounted one (PayoutsPage)
callerGone(call) ==
    IF call.owner = "news" THEN ~ui.instances[call.instance].isMounted
    ELSE call.mount # ui.mount

\* fetchAllArticles() of NewsPage resolves: if the race is still open it
\* resolves, the deadline is cleared, and fetchNewsSuccess is dispatched if
\* isMounted
newsCallSettles(c, data) ==
    /\ ui.calls[c].status = "pending"
    /\ ui.calls[c].owner = "news"
    /\ LET i == ui.calls[c].instance
           applies == ui.instances[i].pc = "racing" /\ ui.instances[i].isMounted
           settled == [world EXCEPT
                          !.ui.calls[c].status = "settled",
                          !.ui.calls[c].gone = callerGone(ui.calls[c]),
                          !.ui.calls[c].dispatched = applies]
       IN becomes(IF ui.instances[i].pc = "racing"
                  THEN LET raced == [settled EXCEPT
                                        !.ui.instances[i].timeoutId = FALSE,
                                        !.ui.instances[i].pc = "completed"]
                       IN IF applies THEN dispatchesFetchNewsSuccess(raced, data)
                          ELSE raced
                  ELSE settled,
                  "newsCallSettles")

\* fetchAllArticles() of PayoutsPage resolves: .then dispatches
\* fetchNewsSuccess(data) and calculatePayouts(data).  fetchAllArticles does
\* not reject (FetchAlwaysYields), so the .catch is not entered.
payoutsCallSettles(c, data) ==
    /\ ui.calls[c].status = "pending"
    /\ ui.calls[c].owner = "payouts"
    /\ becomes(dispatchesCalculatePayouts(
                   dispatchesFetchNewsSuccess(
                       [world EXCEPT !.ui.calls[c].status = "settled",
                                     !.ui.calls[c].gone = callerGone(ui.calls[c]),
                                     !.ui.calls[c].dispatched = TRUE],
                       data),
                   data),
               "payoutsCallSettles")

\* The rate tables the form of PayoutSettings can hold: Number(value) of its
\* two inputs, of either sign
SubmittedRateTables ==
    SliceRateTables
    \cup {[newsRate |-> 0 - DefaultNewsRate, blogRate |-> DefaultBlogRate],
          [newsRate |-> DefaultNewsRate, blogRate |-> 0 - DefaultBlogRate]}

\* Mutant of isNegative: only the news rate is validated
isNegativeNewsOnly(rates) == rates.newsRate < 0

\* handleSubmit: rates.newsRate < 0 || rates.blogRate < 0
isNegative(rates) == rates.newsRate < 0 \/ rates.blogRate < 0

\* PayoutSettings on PayoutsPage: handleSubmit with the form's rate table;
\* negative rates end in the alert, anything else in dispatch(updateRates(rates))
submitsRates(newRates) ==
    /\ ui.page = "payouts"
    /\ IF isNegative(newRates)
       THEN /\ lastOp' = "handleSubmit.alert"
            /\ UNCHANGED <<serviceVars, payout, input, storeVars, fetchVars, appVars>>
       ELSE updateRates(newRates)

PagesNext ==
    \/ \E page \in Pages : navigates(page)
    \/ commits
    \/ \E i \in DOMAIN ui.instances : initTimerFires(i)
    \/ \E i \in DOMAIN ui.instances : deadlineFires(i)
    \/ \E c \in DOMAIN ui.calls, data \in PageResults : newsCallSettles(c, data)
    \/ \E c \in DOMAIN ui.calls, data \in PageResults : payoutsCallSettles(c, data)
    \/ \E newRates \in SubmittedRateTables : submitsRates(newRates)
    \/ loadRatesFromStorageFulfilled
    \/ loadRatesFromStorageRejected
    \/ loadPayoutsFromStorageFulfilled
    \/ loadPayoutsFromStorageRejected

SpecPages == Init /\ [][PagesNext]_vars

----------------------------------------------------------------------------
(* Properties of the payout engine (checked under Spec) *)

authorsOf(payouts) == [i \in DOMAIN payouts |-> payouts[i].author]

idsOf(items) == [i \in DOMAIN items |-> items[i].id]

byAuthor(articles, author) == SelectSeq(articles, LAMBDA a : a.author = author)

\* The authors of a collection in the order each first occurs
firstSeen(articles) ==
    LET F[i \in 0..Len(articles)] ==
            IF i = 0 THEN <<>>
            ELSE IF \E j \in 1..(i - 1) : articles[j].author = articles[i].author
                 THEN F[i - 1]
                 ELSE Append(F[i - 1], articles[i].author)
    IN F[Len(articles)]

RECURSIVE sumTotals(_)
sumTotals(payouts) ==
    IF payouts = <<>> THEN 0 ELSE payouts[1].totalPayout + sumTotals(Tail(payouts))

RECURSIVE sumArticleRates(_, _)
sumArticleRates(articles, rates) ==
    IF articles = <<>> THEN 0
    ELSE (IF articles[1].type = "news" THEN rates.newsRate ELSE rates.blogRate)
         + sumArticleRates(Tail(articles), rates)

\* A collection with two authors, both types, and an author order that is
\* neither alphabetical nor by count
IsMixed(articles) ==
    /\ Len(articles) = 3
    /\ authorsOf(articles) = <<"ann", "Ann", "ann">>
    /\ {articles[i].type : i \in DOMAIN articles} = ArticleTypes

\* C1: rescaling the aggregates calculated from A under R1 with R2 (the
\* updateRates path) gives exactly the aggregates calculated from A under R2.
RescaleEquivalence ==
    lastOp = "updateRates" =>
        payout.authorPayouts = calculate(input, payout.rates)

RescaleEquivalenceWitness ==
    /\ lastOp = "updateRates"
    /\ IsMixed(input)
    /\ payout.rates # initialState.rates
    /\ payout.rates.newsRate # payout.rates.blogRate
    /\ Len(payout.authorPayouts) = 2

\* C2: after calculatePayouts(A), the totals of all aggregates add up to the
\* sum over A of the rate of each article's type; empty A gives no aggregate.
AggregationCorrectness ==
    lastOp = "calculatePayouts" =>
        /\ sumTotals(payout.authorPayouts) = sumArticleRates(input, payout.rates)
        /\ (input = <<>> => payout.authorPayouts = <<>>)

AggregationCorrectnessWitness ==
    /\ lastOp = "calculatePayouts"
    /\ IsMixed(input)
    /\ sumTotals(payout.authorPayouts) = 250

\* C3: calculatePayouts(A) gives one aggregate per distinct author string of A,
\* each with articleCount = number of its line items = number of A's articles
\* by that author.
CountInvariant ==
    lastOp = "calculatePayouts" =>
        LET ap == payout.authorPayouts IN
        /\ {ap[i].author : i \in DOMAIN ap} = {input[j].author : j \in DOMAIN input}
        /\ \A i, j \in DOMAIN ap : ap[i].author = ap[j].author => i = j
        /\ \A i \in DOMAIN ap :
              /\ ap[i].articleCount = Len(ap[i].articles)
              /\ ap[i].articleCount =
                     Cardinality({j \in DOMAIN input : input[j].author = ap[i].author})

CountInvariantWitness ==
    /\ lastOp = "calculatePayouts"
    /\ IsMixed(input)
    /\ Len(payout.authorPayouts) = 2
    /\ payout.authorPayouts[1].articleCount = 2
    /\ payout.authorPayouts[2].articleCount = 1

\* C5: the aggregates are in the order their authors first occur in A, each
\* author's line items are in the order of A, and neither order changes when
\* the rates change.
OrderStability ==
    lastOp \in {"calculatePayouts", "updateRates"} =>
        LET ap == payout.authorPayouts IN
        /\ authorsOf(ap) = firstSeen(input)
        /\ \A i \in DOMAIN ap :
              idsOf(ap[i].articles) = idsOf(byAuthor(input, ap[i].author))

OrderStabilityWitness ==
    /\ lastOp = "updateRates"
    /\ IsMixed(input)
    /\ payout.rates # initialState.rates
    /\ authorsOf(payout.authorPayouts) = <<"ann", "Ann">>
    /\ idsOf(payout.authorPayouts[1].articles) = <<"a1", "a3">>

----------------------------------------------------------------------------
(* Properties of the payout slice (checked under SpecSlice) *)

IsWhole(aggregate) ==
    /\ aggregate.totalPayout = sumRates(aggregate.articles)
    /\ aggregate.articleCount = Len(aggregate.articles)

\* C4: in every reachable state of the payout slice every aggregate has
\* totalPayout = sum of its line items' rates and articleCount = number of its
\* line items; no reducer leaves an aggregate partially updated.
AggregatesWhole ==
    \A i \in DOMAIN payout.authorPayouts : IsWhole(payout.authorPayouts[i])

\* Stored aggregates, calculated under other rates than the current ones and
\* since rescaled, are in the state
AggregatesWholeWitness ==
    /\ lastOp = "saveRatesToStorage.fulfilled"
    /\ Len(payout.authorPayouts) = 2
    /\ payout.authorPayouts # payoutsStore
    /\ authorsOf(payout.authorPayouts) = authorsOf(payoutsStore)
    /\ authorsOf(payout.authorPayouts) # firstSeen(input)
    /\ payout.rates.newsRate # initialState.rates.newsRate

SameLineItem(a, b) ==
    /\ a.id = b.id
    /\ a.title = b.title
    /\ a.type = b.type
    /\ a.publishedAt = b.publishedAt

RateChangeFrameStep ==
    lastOp' \in {"updateRates", "saveRatesToStorage.fulfilled"} =>
        LET old == payout.authorPayouts
            new == payout'.authorPayouts
        IN /\ authorsOf(new) = authorsOf(old)
           /\ \A i \in DOMAIN old :
                 /\ new[i].articleCount = old[i].articleCount
                 /\ Len(new[i].articles) = Len(old[i].articles)
                 /\ \A j \in DOMAIN old[i].articles :
                       SameLineItem(new[i].articles[j], old[i].articles[j])
           /\ payout'.loading = payout.loading
           /\ payout'.error = payout.error
           /\ input' = input
           /\ payoutsStore' = payoutsStore

\* C6: a rate change (updateRates, saveRatesToStorage.fulfilled) leaves the
\* author sequence, every articleCount and every line item's id, title, type,
\* publishedAt and position as they were; no aggregates stay no aggregates.
RateChangeFrame == [][RateChangeFrameStep]_vars

RateChangeFrameWitness ==
    /\ lastOp = "saveRatesToStorage.fulfilled"
    /\ IsMixed(input)
    /\ Len(payout.authorPayouts) = 2
    /\ payout.rates.blogRate = 0
    /\ payout.authorPayouts[2].totalPayout = 0
    /\ payout.authorPayouts[2].articleCount = 1

----------------------------------------------------------------------------
(* Properties of the article source chain (checked under SpecFetch) *)

MockCollections == {getMockArticles(daysAgo) : daysAgo \in RandomDraws}

NothingYielded ==
    /\ fetch.yielded.serverRoute = <<>>
    /\ fetch.yielded.direct = <<>>
    /\ fetch.yielded.cache = <<>>

\* C7: whatever the server route, the two direct calls, the probe, the cache
\* write and the cache read come to, fetchAllArticles does not reject, goes on
\* until it returns, and returns a non-empty collection: the synthetic one
\* when the server route, the direct calls and the cache all gave nothing.
FetchAlwaysYields ==
    /\ fetch.pc # "rejected"
    /\ fetch.pc \notin {"idle", "done"} => ENABLED FetchNext
    /\ fetch.pc = "done" =>
          /\ Len(fetch.result) > 0
          /\ NothingYielded => fetch.result \in MockCollections

FetchAlwaysYieldsWitness ==
    /\ fetch.pc = "done"
    /\ fetch.attempted = <<"serverRoute", "direct", "cache", "mock">>
    /\ fetch.techArticles.status = "rejected"
    /\ fetch.generalArticles.status = "rejected"
    /\ NothingYielded
    /\ Len(fetch.result) = MockCount

\* The output of the first strategy that yielded a non-empty collection
firstYield ==
    IF fetch.yielded.serverRoute # <<>> THEN {fetch.yielded.serverRoute}
    ELSE IF fetch.yielded.direct # <<>> THEN {fetch.yielded.direct}
    ELSE IF fetch.yielded.cache # <<>> THEN {fetch.yielded.cache}
    ELSE MockCollections

IsAttempted(strategy) == \E i \in DOMAIN fetch.attempted : fetch.attempted[i] = strategy

\* C8: the strategies are attempted in the order server route, direct calls,
\* cache, synthetic; one is attempted only if every earlier one failed or gave
\* an empty or invalid collection; the result is the output of the first
\* strategy that yielded a non-empty valid collection.
StrictFallbackOrder ==
    /\ \E n \in 0..4 :
          fetch.attempted = SubSeq(<<"serverRoute", "direct", "cache", "mock">>, 1, n)
    /\ IsAttempted("direct") => fetch.yielded.serverRoute = <<>>
    /\ IsAttempted("cache") =>
          fetch.yielded.serverRoute = <<>> /\ fetch.yielded.direct = <<>>
    /\ IsAttempted("mock") => NothingYielded
    /\ fetch.pc = "done" => fetch.result \in firstYield

NoSaveRejected ==
    \A i \in DOMAIN fetch.saves : fetch.saves[i].outcome # "rejected"

\* The order of C8 holds in every run in which no saveArticles call rejects
StrictFallbackOrderUnlessSaveFails == NoSaveRejected => StrictFallbackOrder

\* C9: when saveArticles fails after the server route or the direct calls
\* yielded a collection, fetchAllArticles returns that collection all the same.
CacheWriteFailureKeepsData ==
    \A i \in DOMAIN fetch.saves :
        fetch.saves[i].outcome = "rejected" =>
            fetch.pc = "done" /\ fetch.result = fetch.saves[i].articles

\* C10: saveArticles is called exactly when the server route or the direct
\* calls yielded a non-empty collection and isOnline() reports availability;
\* never when it reports unavailable, never on the cache or synthetic path.
CacheWriteExactlyWhenOnline ==
    /\ \A i \in DOMAIN fetch.saves :
          /\ fetch.saves[i].online
          /\ Len(fetch.saves[i].articles) > 0
          /\ fetch.saves[i].articles \in
                 {fetch.yielded.serverRoute, fetch.yielded.direct}
    /\ (fetch.yielded.serverRoute # <<>> /\ isOnline(env)) =>
          \E i \in DOMAIN fetch.saves : fetch.saves[i].strategy = "saveServer"
    /\ (fetch.yielded.direct # <<>> /\ isOnline(env)) =>
          \E i \in DOMAIN fetch.saves : fetch.saves[i].strategy = "saveDirect"

\* The server-route half of C10, which the code keeps
ServerWriteExactlyWhenOnline ==
    /\ \A i \in DOMAIN fetch.saves :
          fetch.saves[i].strategy = "saveServer" =>
              fetch.saves[i].online /\ fetch.saves[i].articles = fetch.yielded.serverRoute
    /\ (fetch.yielded.serverRoute # <<>> /\ isOnline(env)) =>
          \E i \in DOMAIN fetch.saves : fetch.saves[i].strategy = "saveServer"

\* An entry that has an id and whose id is not the empty string
HasId(article) == article.id \notin {Undefined, ""}

settledValue(promise) == IF promise.status = "fulfilled" THEN promise.value ELSE <<>>

\* The combined result of the direct calls is the technology articles
\* followed by the business articles, whichever call settled first
DirectCombinesInQueryOrder ==
    (IsAttempted("direct") /\ fetch.pc # "direct") =>
        /\ fetch.techArticles.status # "pending"
        /\ fetch.generalArticles.status # "pending"
        /\ fetch.yielded.direct =
               settledValue(fetch.techArticles) \o settledValue(fetch.generalArticles)

\* C13: the combined result of the direct calls is the technology articles
\* followed by the business articles with every article of each fulfilled
\* call, whichever call settled first; and the cache is read only when both
\* calls rejected or the combined result is empty.
DirectFallsThroughOnlyWhenEmpty ==
    /\ DirectCombinesInQueryOrder
    /\ (IsAttempted("direct") /\ IsAttempted("cache")) =>
          \/ fetch.techArticles.status = "rejected"
             /\ fetch.generalArticles.status = "rejected"
          \/ settledValue(fetch.techArticles) \o settledValue(fetch.generalArticles)
                 = <<>>

----------------------------------------------------------------------------
(* Properties of the news slice (checked under SpecNews) *)

\* The k-th smallest of a set of indices
nth(indices, k) == CHOOSE i \in indices : Cardinality({j \in indices : j <= i}) = k

\* The entries a payload has, none when it is no array
entriesOf(payload) == IF payload.isArray THEN payload.entries ELSE <<>>

\* The positions of the entries that are objects with a non-empty id
identified(entries) ==
    {i \in DOMAIN entries :
        /\ entries[i] \notin Primitives
        /\ entries[i].id \notin {Undefined, ""}}

\* C12: fetchNewsSuccess(payload) stores into articles and filteredArticles
\* exactly the payload entries that are objects with a non-empty id, in their
\* order in the payload; a payload that is no array gives the empty
\* collection; loading becomes false and error null.
ValidationDropping ==
    lastOp = "fetchNewsSuccess" =>
        LET entries == entriesOf(input)
            kept == identified(entries)
        IN /\ Len(news.articles) = Cardinality(kept)
           /\ \A k \in DOMAIN news.articles :
                 news.articles[k] = entries[nth(kept, k)]
           /\ news.filteredArticles = news.articles
           /\ news.loading = FALSE
           /\ news.error = "null"

ValidationDroppingWitness ==
    /\ lastOp = "fetchNewsSuccess"
    /\ input = arrayPayload(<<KeyedArticle("n2", 2),
                              [KeyedArticle("n1", 3) EXCEPT !.id = ""],
                              KeyedArticle("n1", 1)>>)
    /\ news.articles = <<KeyedArticle("n2", 2), KeyedArticle("n1", 1)>>

----------------------------------------------------------------------------
(* Properties of the cache store (checked under SpecStore) *)

\* Two collections hold the same entries
sameEntries(a, b) ==
    /\ Len(a) = Len(b)
    /\ \A i \in DOMAIN a : \E j \in DOMAIN b : a[i] = b[j]
    /\ \A j \in DOMAIN b : \E i \in DOMAIN a : a[i] = b[j]

isSettled(name) == op.name = name /\ op.status \in {"resolved", "rejected"}

\* C18: after saveArticles(C) settled the articles store holds exactly C when
\* the call resolved and exactly its previous contents when it rejected,
\* also for a C with an entry without id or with one id twice; and what
\* getArticles() resolves with is the contents of the store.
SaveArticlesAllOrNothing ==
    /\ (isSettled("saveArticles") /\ op.status = "resolved") =>
          sameEntries(articlesStore, op.arg)
    /\ (isSettled("saveArticles") /\ op.status = "rejected") =>
          articlesStore = op.before
    /\ (isSettled("getArticles") /\ op.status = "resolved") =>
          op.value = articlesStore

\* What of C18 the code keeps: a resolved saveArticles(C) left exactly C, a
\* C with one id twice left the previous contents, and getArticles() resolves
\* with the contents of the store
SaveArticlesResolvedExact ==
    /\ (isSettled("saveArticles") /\ op.status = "resolved") =>
          sameEntries(articlesStore, op.arg)
    /\ (isSettled("saveArticles") /\ op.status = "rejected"
            /\ keyedPrefix(op.arg) = op.arg) =>
          articlesStore = op.before
    /\ (isSettled("getArticles") /\ op.status = "resolved") =>
          op.value = articlesStore

\* C19: every cache store operation settles, and when the storage layer
\* failed it (the database did not open, a request failed, the transaction
\* was aborted) its promise is rejected: not resolved, not left pending.
StorageFailureRejects ==
    /\ op.failure # "none" => op.status = "rejected"
    /\ op.status = "pending" => ENABLED StoreNext

\* What of C19 the code keeps: a database that does not open and a failed
\* request reject the promise
OpenAndRequestFailuresReject ==
    op.failure \in {"open", "request"} => op.status = "rejected"

----------------------------------------------------------------------------
(* Properties of the pages (checked under SpecPages) *)

pendingCalls == {c \in DOMAIN ui.calls : ui.calls[c].status = "pending"}

\* Nothing is left to happen but a navigation or a change of rates
Quiescent ==
    /\ pendingCalls = {}
    /\ \A i \in DOMAIN ui.instances :
          ~ui.instances[i].initTimer /\ ~ui.instances[i].timeoutId
    /\ inflight.loadRates = 0
    /\ inflight.loadPayouts = 0
    /\ ~depsChanged(world)

\* The deadline of the effect instance i won its race on the page still mounted
deadlineWon(i) ==
    /\ ui.instances[i].pc = "timedOut"
    /\ ui.instances[i].mount = ui.mount

releases(c) ==
    /\ ui.calls[c].status = "pending"
    /\ \/ ui.calls[c].owner = "payouts"
       \/ /\ ui.instances[ui.calls[c].instance].pc = "racing"
          /\ ui.instances[ui.calls[c].instance].isMounted

\* C15: while loading is true something is left that sets it to false again:
\* a call whose completion, or whose deadline, dispatches fetchNewsSuccess or
\* fetchNewsFailure.
LoadingIsReleased == news.loading => \E c \in DOMAIN ui.calls : releases(c)

\* Once nothing is left to release it, loading stays true for ever
UnreleasedStaysLoading ==
    [](~LoadingIsReleased => [](news.loading))

idleGuard == [articles |-> 0, loading |-> FALSE, error |-> "null"]

\* C16: at most one call of fetchAllArticles is in flight at any time, and
\* every call was issued by a trigger that fired with loading false, no
\* articles loaded and no error set.
AtMostOneAcquisition ==
    /\ Cardinality(pendingCalls) <= 1
    /\ \A c \in DOMAIN ui.calls : ui.calls[c].guard = idleGuard

AtMostOneAcquisitionWitness ==
    /\ ui.page = "payouts"
    /\ ui.seen.loading
    /\ Len(ui.calls) = 1
    /\ ui.calls[1].owner = "news"
    /\ ui.calls[1].status = "pending"
    /\ lastOp = "navigates"

\* C17: the completion of a call whose caller is gone dispatches nothing.
AbandonedCompletionIsSilent ==
    \A c \in DOMAIN ui.calls : ui.calls[c].gone => ~ui.calls[c].dispatched

\* The NewsPage half of C17, which the code keeps
AbandonedNewsCompletionIsSilent ==
    \A c \in DOMAIN ui.calls :
        (ui.calls[c].owner = "news" /\ ui.calls[c].gone) => ~ui.calls[c].dispatched

AggregatesFollowArticlesWhereShown ==
    (Quiescent /\ news.articles # <<>> /\ ui.page \in {"payouts", "dashboard"}) =>
        payout.authorPayouts = calculate(news.articles, payout.rates)

----------------------------------------------------------------------------
(* Properties of the settings form and of the storage loads (checked under *)
(* SpecPages)                                                              *)

\* C21: once the admin has submitted valid rates and nothing is left to
\* happen, the settings store holds the submitted rates and the payouts
\* store holds the aggregates of the state
SubmittedRatesArePersisted ==
    (Quiescent /\ lastOp = "updateRates") =>
        /\ getPayoutRates(settingsStore) = <<savePayoutRates(payout.rates)>>
        /\ sameEntries(getPayouts(payoutsStore), payout.authorPayouts)

\* C22: a storage load is fulfilled only while no calculatePayouts has run
LoadsPrecedeRecomputation ==
    lastOp \in {"loadRatesFromStorage.fulfilled", "loadPayoutsFromStorage.fulfilled"}
        => input = <<>>

NonNegative(p) ==
    /\ p.rates.newsRate >= 0
    /\ p.rates.blogRate >= 0
    /\ \A i \in DOMAIN p.authorPayouts : p.authorPayouts[i].totalPayout >= 0

\* C25: a submission with a negative rate dispatches nothing and changes
\* neither the rates nor the aggregates, and after every step both rates and
\* every totalPayout are at least 0
NegativeSubmissionStep ==
    /\ lastOp' = "handleSubmit.alert" => (payout' = payout /\ news' = news)
    /\ NonNegative(payout')

NegativeRatesAreRejected == [][NegativeSubmissionStep]_vars

NegativeRatesAreRejectedWitness ==
    /\ lastOp = "handleSubmit.alert"
    /\ payout.authorPayouts # <<>>
    /\ payout.rates # initialState.rates

----------------------------------------------------------------------------
(* Line-item rates of the payout slice (checked under SpecSlice) *)

\* C28: every line item's rate is the entry of the current rate table for
\* its type
LineItemRatesAreCurrent ==
    \A i \in DOMAIN payout.authorPayouts :
        \A j \in DOMAIN payout.authorPayouts[i].articles :
            payout.authorPayouts[i].articles[j].rate
                = rateFor(payout.authorPayouts[i].articles[j].type, payout.rates)

----------------------------------------------------------------------------
(* The shape of acquired articles (checked under SpecFetch) *)

\* C26: every article fetchAllArticles hands to its caller, and so to
\* calculatePayouts, has one of the two article types and an author
AcquiredArticlesAreTyped ==
    fetch.pc = "done" =>
        \A i \in DOMAIN fetch.result :
            /\ fetch.result[i].type \in ArticleTypes
            /\ fetch.result[i].author # Undefined

\* The same for the results that did not come from the direct provider
MediatedArticlesAreTyped ==
    (fetch.pc = "done" /\ fetch.source \in {"serverRoute", "mock"}) =>
        \A i \in DOMAIN fetch.result :
            /\ fetch.result[i].type \in ArticleTypes
            /\ fetch.result[i].author # Undefined

----------------------------------------------------------------------------
(* Properties of the filter engine (checked under SpecFilter) *)

\* A date string that is set and parses to an instant
isInstant(dateString) == isSet(dateString) /\ ~isNaN(getTime(dateString))

\* The active predicates of a filter, each as the specification words it
Satisfies(article, f) ==
    /\ f.author # <<>> =>
          includes(lowerCased(article.author), lowerCased(f.author))
    /\ isSet(f.dateFrom) =>
          /\ isInstant(article.publishedAt)
          /\ isInstant(f.dateFrom)
          /\ getTime(f.dateFrom) <= getTime(article.publishedAt)
    /\ isSet(f.dateTo) =>
          /\ isInstant(article.publishedAt)
          /\ isInstant(f.dateTo)
          /\ getTime(article.publishedAt) <= getTime(f.dateTo)
    /\ f.type # "all" => article.type = f.type
    /\ f.searchQuery # <<>> =>
          \E text \in {article.title, article.description, article.author} :
              includes(lowerCased(text), lowerCased(f.searchQuery))

FilterStep ==
    lastOp' = "filterNews" =>
        /\ news'.articles = news.articles
        /\ news'.filteredArticles
               = SelectSeq(news.articles, LAMBDA a : Satisfies(a, input'))
        /\ input' = filterInitialState => news'.filteredArticles = news.articles

\* C23: filterNews(filter) leaves state.articles alone and sets
\* filteredArticles to the subsequence of state.articles, in their order,
\* of the articles that satisfy every active predicate of the filter; with
\* the default filter that is the whole collection
FilterIsTheMatchingSubsequence == [][FilterStep]_vars

FilterIsTheMatchingSubsequenceWitness ==
    /\ lastOp = "filterNews"
    /\ input.author # <<>>
    /\ input.dateFrom = "2024-01-10"
    /\ input.dateTo = "2024-01-10"
    /\ input.type = "news"
    /\ input.searchQuery # <<>>
    /\ Len(news.articles) = MaxFiltered
    /\ Len(news.filteredArticles) = 1

\* A bound that is set and is no date
isUnparseable(dateString) == isSet(dateString) /\ isNaN(getTime(dateString))

\* The filter without its unparseable bounds
withoutUnparseable(f) ==
    [f EXCEPT !.dateFrom = IF isUnparseable(@) THEN "null" ELSE @,
              !.dateTo = IF isUnparseable(@) THEN "null" ELSE @]

\* C24: a bound that is set and unparseable excludes no article: the result
\* is that of the filter without it
UnparseableBoundIsSkipped ==
    lastOp = "filterNews" =>
        news.filteredArticles
            = SelectSeq(news.articles, LAMBDA a : Satisfies(a, withoutUnparseable(input)))

\* What the code does with an unparseable bound: no article passes
UnparseableBoundExcludesAll ==
    (/\ lastOp = "filterNews"
     /\ isUnparseable(input.dateFrom) \/ isUnparseable(input.dateTo))
        => news.filteredArticles = <<>>

----------------------------------------------------------------------------
(* Properties of NewsPage's filter effect (checked under SpecNewsPage) *)

\* C29: whenever the filter effect has nothing left to dispatch,
\* filteredArticles is the filter engine's result for the current articles
\* under the current filter
FilteredFollowsFilter ==
    ~filter.stale =>
        news.filteredArticles
            = SelectSeq(news.articles, LAMBDA a : Satisfies(a, filter.state))

\* What holds: right after the effect has run, and after clearNews
FilteredFollowsFilterAfterEffect ==
    (~filter.stale /\ lastOp \in {"filterNews", "clearNews"}) =>
        news.filteredArticles
            = SelectSeq(news.articles, LAMBDA a : Satisfies(a, filter.state))

----------------------------------------------------------------------------
(* Properties of the export service (checked under SpecExport) *)

\* A cell that shows its value: the value as a string, its double quotes
\* doubled, inside double quotes
shows(value) == <<"\"">> \o doubleQuotes(String(value)) \o <<"\"">>

\* The header labels joined by commas, then one row per item in input order
tableOf(items, headers, cellOf(_)) ==
    join(<<join([h \in DOMAIN headers |-> headers[h].label], ",")>>
         \o [i \in DOMAIN items |->
                join([h \in DOMAIN headers |-> cellOf(items[i][headers[h].key])], ",")],
         "\n")

\* C27: exportToCsv throws for null or empty data and otherwise returns the
\* header row followed by one row per item in which every cell shows the
\* item's value for the header key
ExportShowsEveryValue ==
    exported.called =>
        IF input.isNull \/ input.items = <<>>
        THEN exported.threw
        ELSE /\ ~exported.threw
             /\ exported.csvContent = tableOf(input.items, SheetsHeaders, shows)

\* What holds: the cell of the value 0 is empty, every other cell shows its value
showsUnlessZero(value) ==
    IF value.kind = "number" /\ value.n = 0 THEN <<"\"", "\"">> ELSE shows(value)

ExportShowsEveryValueButZero ==
    exported.called =>
        IF input.isNull \/ input.items = <<>>
        THEN exported.threw
        ELSE /\ ~exported.threw
             /\ exported.csvContent
                    = tableOf(input.items, SheetsHeaders, showsUnlessZero)

----------------------------------------------------------------------------
(* Properties of the mediated route (checked under SpecRoute) *)

\* C30: every article of an answer of the route is typed news when the
\* selector is 'headlines' and blog for every other selector; calculatePayouts
\* over an answer to the 'mixed' selector gives every author
\* totalPayout = articleCount * blogRate
RouteTypesFollowSelector ==
    /\ route.status = "ok" =>
          \A i \in DOMAIN route.articles :
              route.articles[i].type
                  = IF route.type = "headlines" THEN "news" ELSE "blog"
    /\ (lastOp = "calculatePayouts" /\ route.type = "mixed" /\ input = route.articles) =>
          \A p \in DOMAIN payout.authorPayouts :
              payout.authorPayouts[p].totalPayout
                  = payout.authorPayouts[p].articleCount * payout.rates.blogRate

RouteTypesFollowSelectorWitness ==
    /\ lastOp = "calculatePayouts"
    /\ route.type = "mixed"
    /\ input = route.articles
    /\ payout.rates.blogRate # payout.rates.newsRate
    /\ Len(payout.authorPayouts) = 2
    /\ \E p \in DOMAIN payout.authorPayouts : payout.authorPayouts[p].articleCount = 2

====
